---- MODULE Spec2Model ----
(***************************************************************************)
(* Lobby match-simulation engine of phonk-arena                            *)
(* (frontend/src/lib/server/matchStore.ts).  The engine is followed for    *)
(* the lobby a request is addressed to: the default lobby "drift-hard" in  *)
(* every specification but SpecLobbies, which keeps a store of lobbies.    *)
(*                                                                         *)
(* Number representation.  Timestamps and durations are milliseconds.     *)
(* The agents' fractional fields (confidence, intensityBase, ...) and the  *)
(* bankroll are held in thousandths (0.5 is 500, 3.5 is 3500); every step  *)
(* the code takes on them in this lobby is a whole number of thousandths.  *)
(* Wei amounts (decimal strings fed to BigInt) are natural numbers.        *)
(* A clip id `${matchId}-${clipIndex}` is the pair <<matchId, clipIndex>>. *)
(* Wallet addresses are sequences of one-character strings.                *)
(* A nullable number is Null (-1); a nullable record is a sequence of      *)
(* length 0 or 1.  A 32-bit word is a pair of 16-bit halves.               *)
(*                                                                         *)
(* The lobby state carries the agent fields that no generator draw        *)
(* touches in this lobby; riskLevel and volatility, which the seeded       *)
(* generator drives, are followed on one agent at a time, in every lobby,  *)
(* by the specification SpecAgent (a draw of the generator is a value      *)
(* chosen from Rands).  The clip plan is computed from the seeded          *)
(* generator (hashSeed, mulberry32) with draws cut to thousandths.         *)
(* Not modelled: personaName; the textual mutation note.                   *)
(*                                                                         *)
(* Specifications: Spec (one handler call per step), SpecPoll (a polled    *)
(* and an unpolled copy), SpecRestart (process restarts and damaged        *)
(* records), SpecAgent (one agent through outcomes), SpecPass (the         *)
(* catch-up one loop iteration per step), SpecLobbies (several lobbies),   *)
(* SpecRace (concurrent requests suspended at their awaits).               *)
(***************************************************************************)
EXTENDS Integers, Sequences, FiniteSets, TLC

VARIABLES
    clock,      \* wall clock, Date.now()
    ticks,      \* number of clock advances so far (bounds the model)
    calls,      \* number of engine calls so far (bounds the model)
    cache,      \* process-wide cache entry of the lobby: <<>> or <<state>>
    disk,       \* durable record of the lobby: <<>> or <<state>>
    contPresence, \* since the loop started some session was live at every moment
    shadow,     \* a second copy of the lobby that receives the same events but no polls
    runtimeAgent, \* one agent with all its numeric fields, followed through outcomes: <<>> or <<[lobbyId, agent, outcomes]>>
    pass, \* a catch-up pass taken one loop iteration at a time: <<>> or <<the pass>>
    addressed, \* the lobby id the request at hand resolved to (resolveLobbyIdOrThrow)
    lobbies, \* the store of all lobbies: cache entries by lobby id, files by path, and the lobby id input of the request at hand
    heap, \* the lobby state objects of the process and which of them the cache entry refers to
    requests  \* the requests received so far, each with the point it is suspended at

vars == <<clock, ticks, calls, cache, disk, contPresence, shadow, runtimeAgent, pass, addressed, lobbies, heap, requests>>

Null == -1

-----------------------------------------------------------------------------
(* Program constants, matchStore.ts:26-37 *)

CLIP_DURATION_MS == 10000
CLIP_GAP_MS == 2500
CLIP_SLOT_MS == CLIP_DURATION_MS + CLIP_GAP_MS
LISTENER_TTL_MS == 30000
HISTORY_LIMIT == 10
VOTE_RETENTION_CLIPS == 30
EPOCH_HISTORY_LIMIT == 5
EPOCH_DURATION_SECONDS == 3600
EPOCH_DURATION_MS == EPOCH_DURATION_SECONDS * 1000
DEFAULT_BANKROLL == 100 * 1000
EPOCH_REWARD_FACTOR == 35 * 100
EPOCH_PENALTY_FACTOR == 22 * 100

(* LOBBY_IDS and LOBBY_CONFIGS (types.ts:74-152), in thousandths.  The engine *)
(* is given its lobby id by the request it serves: LobbyId is the lobby the  *)
(* request at hand is addressed to.                                          *)
LobbyIds == {"drift-hard", "soft-night", "chaos-lab"}

LobbyId == addressed

\* makeMatchId, matchStore.ts:179-182
matchIdOf(lobbyId) ==
    IF lobbyId = "drift-hard" THEN "MONAD-LIVE-DRIFT-HARD"
    ELSE IF lobbyId = "soft-night" THEN "MONAD-LIVE-SOFT-NIGHT"
    ELSE "MONAD-LIVE-CHAOS-LAB"

MatchId == matchIdOf(LobbyId)

LobbyConfig ==
    IF LobbyId = "drift-hard"
    THEN [ agentA |-> [baseStyle |-> "HARD", strategy |-> "AGGRESSIVE"],
           agentB |-> [baseStyle |-> "HARD", strategy |-> "ADAPTIVE"],
           mutationSensitivity |-> 620,
           intensityMin |-> 620,
           intensityMax |-> 980 ]
    ELSE IF LobbyId = "soft-night"
    THEN [ agentA |-> [baseStyle |-> "SOFT", strategy |-> "SAFE"],
           agentB |-> [baseStyle |-> "SOFT", strategy |-> "ADAPTIVE"],
           mutationSensitivity |-> 380,
           intensityMin |-> 280,
           intensityMax |-> 720 ]
    ELSE [ agentA |-> [baseStyle |-> "HARD", strategy |-> "ADAPTIVE"],
           agentB |-> [baseStyle |-> "SOFT", strategy |-> "AGGRESSIVE"],
           mutationSensitivity |-> 860,
           intensityMin |-> 350,
           intensityMax |-> 950 ]

-----------------------------------------------------------------------------
(* Bounds of the model *)

MaxTicks == 3
MaxCalls == 2
MaxMinted == 1
MaxSweep == 7

\* The clock starts two slots before the end of epoch 0.
T0 == EPOCH_DURATION_MS - 2 * CLIP_SLOT_MS
TickSteps == {CLIP_DURATION_MS, LISTENER_TTL_MS + 5000}

-----------------------------------------------------------------------------
(* Generic helpers *)

Min(a, b) == IF a < b THEN a ELSE b
Max(a, b) == IF a > b THEN a ELSE b
clamp(value, min, max) == Min(max, Max(min, value))

\* `const x = value; rest`: the value is computed once and named in the rest
Bind(value, rest(_)) == rest(value)

EmptyMap == [x \in {} |-> 0]
Put(f, k, v) == [x \in (DOMAIN f) \cup {k} |-> IF x = k THEN v ELSE f[x]]
Remove(f, K) == [x \in (DOMAIN f) \ K |-> f[x]]
Take(s, n) == SubSeq(s, 1, Min(n, Len(s)))

-----------------------------------------------------------------------------
(* Strings: a string is a sequence of one-character strings *)

Repeat(c, n) == [i \in 1..n |-> c]

HexLower == {"0", "1", "2", "3", "4", "5", "6", "7", "8", "9",
             "a", "b", "c", "d", "e", "f"}
HexUpper == {"A", "B", "C", "D", "E", "F"}
SessionChars ==
    HexLower \cup HexUpper \cup
    {"g", "h", "i", "j", "k", "l", "m", "n", "o", "p", "q", "r", "s", "t",
     "u", "v", "w", "x", "y", "z", "_", "-",
     "G", "H", "I", "J", "K", "L", "M", "N", "O", "P", "Q", "R", "S", "T",
     "U", "V", "W", "X", "Y", "Z"}

lowerChar(c) ==
    CASE c = "A" -> "a" [] c = "B" -> "b" [] c = "C" -> "c"
      [] c = "D" -> "d" [] c = "E" -> "e" [] c = "F" -> "f"
      [] c = "X" -> "x" [] OTHER -> c

toLowerCase(s) == [i \in 1..Len(s) |-> lowerChar(s[i])]

RECURSIVE trimStart(_)
trimStart(s) == IF Len(s) > 0 /\ s[1] = " " THEN trimStart(Tail(s)) ELSE s

RECURSIVE trimEnd(_)
trimEnd(s) ==
    IF Len(s) > 0 /\ s[Len(s)] = " " THEN trimEnd(SubSeq(s, 1, Len(s) - 1)) ELSE s

trim(s) == trimEnd(trimStart(s))

NoString == <<>>

\* Variant: the pattern is applied to the id as sent
parseSessionId_noTrim(sessionId) ==
    IF /\ Len(sessionId) >= 8
       /\ Len(sessionId) <= 128
       /\ \A i \in 1..Len(sessionId) : sessionId[i] \in SessionChars
    THEN sessionId
    ELSE NoString
\* /^[a-zA-Z0-9_-]{8,128}$/ on the trimmed candidate; NoString stands for null
parseSessionId(sessionId) ==
    LET candidate == trim(sessionId)
    IN  IF /\ Len(candidate) >= 8
           /\ Len(candidate) <= 128
           /\ \A i \in 1..Len(candidate) : candidate[i] \in SessionChars
        THEN candidate
        ELSE NoString

\* /^0x[a-fA-F0-9]{40}$/
isAddressLike(value) ==
    /\ Len(value) = 42
    /\ value[1] = "0"
    /\ value[2] = "x"
    /\ \A i \in 3..42 : value[i] \in HexLower \cup HexUpper

normalizeAddress(value) ==
    LET normalized == toLowerCase(trim(value))
    IN  IF isAddressLike(normalized) THEN normalized ELSE NoString

isWeiLike(value) == value \in Nat

epochIdFromMs(now) == (now \div 1000) \div EPOCH_DURATION_SECONDS
epochStartMs(epochId) == epochId * EPOCH_DURATION_MS
epochEndMs(epochId) == (epochId + 1) * EPOCH_DURATION_MS

-----------------------------------------------------------------------------
(* Inputs the model draws from *)

Addr1 == <<"0", "x">> \o Repeat("a", 40)
Addr1Upper == <<" ", "0", "x">> \o Repeat("A", 40) \o <<" ">>
Addr2 == <<"0", "x">> \o Repeat("b", 40)
AddrShort == <<"0", "x">> \o Repeat("a", 39)
VoteAddresses == {Addr1, Addr1Upper, AddrShort}
BetAddresses == {Addr1, Addr2}
BetAmounts == {0, 1}
Viewers == {NoString, Addr1}

Session1 == <<"s", "e", "s", "s", "-", "A", "_", "1">>
SessionBad == <<"s", "h", "o", "r", "t">>
SessionInputs == {Session1, SessionBad}

Digit == <<"1", "2", "3", "4", "5", "6", "7", "8", "9">>
mintedSession(k) == <<"s", "e", "s", "s", "i", "o", "n", "_">> \o <<Digit[k]>>

Sides == {"A", "B"}
AgentIds == {"A", "B"}

-----------------------------------------------------------------------------
(* Lobby state construction, matchStore.ts:225-329 *)

createRuntimeAgent(agentId, params) ==
    LET rangeMid == (LobbyConfig.intensityMin + LobbyConfig.intensityMax) \div 2
        stylePush == IF params.baseStyle = "HARD" THEN 60 ELSE -50
        strategyPush ==
            IF params.strategy = "AGGRESSIVE" THEN 80
            ELSE IF params.strategy = "SAFE" THEN -40 ELSE 10
    IN  [ id |-> agentId,
          strategy |-> params.strategy,
          confidence |-> 500,
          intensityBase |->
              clamp(rangeMid + stylePush + strategyPush,
                    LobbyConfig.intensityMin, LobbyConfig.intensityMax),
          tempoPressure |-> IF params.strategy = "AGGRESSIVE" THEN 620 ELSE 500,
          mutationSensitivity |->
              clamp(LobbyConfig.mutationSensitivity
                      + (IF params.strategy = "ADAPTIVE" THEN 80 ELSE 0),
                    100, 1000),
          bankroll |-> DEFAULT_BANKROLL,
          winCount |-> 0,
          lossCount |-> 0,
          clipsPlayed |-> 0,
          wins |-> 0,
          losses |-> 0 ]

makeInitialAgents ==
    [ A |-> createRuntimeAgent("A", LobbyConfig.agentA),
      B |-> createRuntimeAgent("B", LobbyConfig.agentB) ]

defaultLoopState ==
    [ running |-> FALSE,
      startedAt |-> Null,
      runStartedAt |-> Null,
      runStartElapsedMs |-> 0,
      elapsedMs |-> 0,
      processedClipCount |-> 0 ]

emptyEpochAggregate(epochId) ==
    [ epochId |-> epochId,
      votesA |-> 0,
      votesB |-> 0,
      totalBetAWei |-> 0,
      totalBetBWei |-> 0,
      winner |-> "null",
      finalizedAt |-> Null ]

defaultLobbyState(now) ==
    LET currentEpochId == epochIdFromMs(now)
    IN  [ lobbyId |-> LobbyId,
          matchId |-> MatchId,
          listeners |-> EmptyMap,
          loop |-> defaultLoopState,
          agents |-> makeInitialAgents,
          clipHistory |-> <<>>,
          votesByClip |-> EmptyMap,
          epochAggregates |-> Put(EmptyMap, currentEpochId, emptyEpochAggregate(currentEpochId)),
          userBetsByEpoch |-> EmptyMap,
          epochHistory |-> <<>>,
          lastEpochId |-> currentEpochId,
          createdAt |-> now,
          updatedAt |-> now ]

-----------------------------------------------------------------------------
(* Elapsed time, epoch aggregates, tallies *)

\* Variant: B opens the match
activeAgentForClip_bFirst(clipIndex) == IF clipIndex % 2 = 0 THEN "B" ELSE "A"
activeAgentForClip(clipIndex) == IF clipIndex % 2 = 0 THEN "A" ELSE "B"

getActiveElapsedMs(state, now) ==
    IF ~state.loop.running \/ state.loop.runStartedAt = Null
    THEN state.loop.elapsedMs
    ELSE state.loop.runStartElapsedMs + (now - state.loop.runStartedAt)

\* ensureEpochAggregate yields the state after the call; the aggregate the code
\* returns is .epochAggregates[epochId] of it.
\* Variant: an aggregate that is created anew even when the epoch has one
ensureEpochAggregate_fresh(state, epochId) ==
    [state EXCEPT !.epochAggregates = Put(@, epochId, emptyEpochAggregate(epochId))]
ensureEpochAggregate(state, epochId) ==
    IF epochId \in DOMAIN state.epochAggregates
    THEN state
    ELSE [state EXCEPT !.epochAggregates = Put(@, epochId, emptyEpochAggregate(epochId))]

\* Variant: a tie is reported as a win of A
tallyWinner_aOnTie(aVotes, bVotes) ==
    IF aVotes >= bVotes THEN "A" ELSE "B"
tallyWinner(aVotes, bVotes) ==
    IF aVotes > bVotes THEN "A"
    ELSE IF bVotes > aVotes THEN "B"
    ELSE "TIE"

toVoteTally(voteState) ==
    [ clipId |-> voteState.clipId,
      aVotes |-> voteState.aVotes,
      bVotes |-> voteState.bVotes,
      winner |-> tallyWinner(voteState.aVotes, voteState.bVotes) ]

\* ensureVoteState yields the state after the call; the vote state the code
\* returns is .votesByClip[clipId] of it.
\* Variant: a vote state that forgets the votes already recorded for the clip
ensureVoteState_fresh(state, clipId) ==
    [state EXCEPT !.votesByClip =
        Put(@, clipId, [clipId |-> clipId, votes |-> EmptyMap, aVotes |-> 0, bVotes |-> 0])]
ensureVoteState(state, clipId) ==
    IF clipId \in DOMAIN state.votesByClip
    THEN state
    ELSE [state EXCEPT !.votesByClip =
              Put(@, clipId, [clipId |-> clipId, votes |-> EmptyMap, aVotes |-> 0, bVotes |-> 0])]

-----------------------------------------------------------------------------
(* Agent mutation engine, matchStore.ts:962-1145 *)

\* Math.round(value * 1000) / 1000 of a value held as a whole number of thousandths
round3(value) == (value * 1000 + 500) \div 1000

\* drift-hard and soft-night branches; the chaos-lab branch only jitters
\* generator-driven fields
applyLobbyBiasToAgent(lobbyId, agent) ==
    IF lobbyId = "drift-hard"
    THEN [agent EXCEPT !.intensityBase =
              clamp(Max(@, LobbyConfig.intensityMin + 40),
                    LobbyConfig.intensityMin, LobbyConfig.intensityMax)]
    ELSE IF lobbyId = "soft-night"
    THEN [agent EXCEPT !.intensityBase =
              clamp(Min(@, LobbyConfig.intensityMax - 40),
                    LobbyConfig.intensityMin, LobbyConfig.intensityMax)]
    ELSE agent

applyOutcomeMutation_tieWins(state, agent, outcome) ==
    IF outcome = "TIE" \/ outcome = agent.id
    THEN applyLobbyBiasToAgent(state.lobbyId, [agent EXCEPT !.wins = @ + 1])
    ELSE applyLobbyBiasToAgent(state.lobbyId, [agent EXCEPT !.losses = @ + 1])

\* The agent after the call (the code mutates it in place and returns a note)
applyOutcomeMutation(state, agent, outcome) ==
    LET lo == LobbyConfig.intensityMin
        hi == LobbyConfig.intensityMax
        rangeMid == (lo + hi) \div 2
    IN  IF outcome = "TIE"
        THEN applyLobbyBiasToAgent(state.lobbyId,
                [agent EXCEPT !.confidence = clamp(@ + 5, 100, 990)])
        ELSE IF outcome = agent.id
        THEN applyLobbyBiasToAgent(state.lobbyId,
                [agent EXCEPT !.wins = @ + 1,
                              !.confidence = clamp(@ + 45, 100, 990),
                              !.intensityBase = clamp(@ + 15, lo, hi),
                              !.tempoPressure = clamp(@ + 30, 100, 990)])
        ELSE IF agent.strategy = "ADAPTIVE"
        THEN applyLobbyBiasToAgent(state.lobbyId,
                [agent EXCEPT !.losses = @ + 1,
                              !.confidence = clamp(@ - 55, 100, 980),
                              !.tempoPressure = clamp(@ + 40, 100, 990),
                              !.mutationSensitivity = clamp(@ + 40, 80, 1000)])
        ELSE IF agent.strategy = "AGGRESSIVE"
        THEN applyLobbyBiasToAgent(state.lobbyId,
                [agent EXCEPT !.losses = @ + 1,
                              !.confidence = clamp(@ - 55, 100, 980),
                              !.intensityBase = clamp(@ + 70, lo, hi),
                              !.mutationSensitivity = clamp(@ + 60, 80, 1000),
                              !.tempoPressure = clamp(@ + 80, 100, 990)])
        ELSE applyLobbyBiasToAgent(state.lobbyId,
                [agent EXCEPT !.losses = @ + 1,
                              !.confidence = clamp(@ - 55, 100, 980),
                              !.intensityBase =
                                  clamp(@ + ((rangeMid - @) * 3) \div 10, lo, hi)])

\* Variant: the loser's penalty is taken without the floor at zero
applyEpochBankrollMutation_noFloor(state, agent, winner) ==
    LET lo == LobbyConfig.intensityMin
        hi == LobbyConfig.intensityMax
    IN  IF winner = "TIE"
        THEN [agent EXCEPT !.confidence = clamp(@ + 5, 100, 990)]
        ELSE IF winner = agent.id
        THEN [agent EXCEPT !.bankroll = round3(@ + EPOCH_REWARD_FACTOR),
                           !.winCount = @ + 1,
                           !.confidence = clamp(@ + 30, 100, 990),
                           !.intensityBase = clamp(@ + 15, lo, hi)]
        ELSE IF agent.strategy = "AGGRESSIVE"
        THEN [agent EXCEPT !.bankroll = round3(@ - EPOCH_PENALTY_FACTOR),
                           !.lossCount = @ + 1,
                           !.confidence = clamp(@ - 30, 100, 990),
                           !.mutationSensitivity = clamp(@ + 50, 80, 1000),
                           !.tempoPressure = clamp(@ + 30, 100, 990)]
        ELSE [agent EXCEPT !.bankroll = round3(@ - EPOCH_PENALTY_FACTOR),
                           !.lossCount = @ + 1,
                           !.confidence = clamp(@ - 30, 100, 990)]
applyEpochBankrollMutation(state, agent, winner) ==
    LET lo == LobbyConfig.intensityMin
        hi == LobbyConfig.intensityMax
    IN  IF winner = "TIE"
        THEN [agent EXCEPT !.confidence = clamp(@ + 5, 100, 990)]
        ELSE IF winner = agent.id
        THEN [agent EXCEPT !.bankroll = round3(@ + EPOCH_REWARD_FACTOR),
                           !.winCount = @ + 1,
                           !.confidence = clamp(@ + 30, 100, 990),
                           !.intensityBase = clamp(@ + 15, lo, hi)]
        ELSE IF agent.strategy = "AGGRESSIVE"
        THEN [agent EXCEPT !.bankroll = round3(Max(0, @ - EPOCH_PENALTY_FACTOR)),
                           !.lossCount = @ + 1,
                           !.confidence = clamp(@ - 30, 100, 990),
                           !.mutationSensitivity = clamp(@ + 50, 80, 1000),
                           !.tempoPressure = clamp(@ + 30, 100, 990)]
        ELSE [agent EXCEPT !.bankroll = round3(Max(0, @ - EPOCH_PENALTY_FACTOR)),
                           !.lossCount = @ + 1,
                           !.confidence = clamp(@ - 30, 100, 990)]

-----------------------------------------------------------------------------
(* Epoch lifecycle, matchStore.ts:1147-1206 *)

epochHistoryEntry(state, epochId, now) ==
    LET aggregate == state.epochAggregates[epochId]
    IN  [ epochId |-> epochId,
          winner |-> aggregate.winner,
          votesA |-> aggregate.votesA,
          votesB |-> aggregate.votesB,
          totalBetAWei |-> aggregate.totalBetAWei,
          totalBetBWei |-> aggregate.totalBetBWei,
          timestamp |-> now,
          agentPerformance |->
              [a \in AgentIds |->
                  [ bankroll |-> round3(state.agents[a].bankroll),
                    wins |-> state.agents[a].winCount,
                    losses |-> state.agents[a].lossCount ]] ]

\* The aggregate of an epoch that is being finalized, and the state after it:
\* winner and finalized-at set, both agents' bankroll mutation, history entry
finalizeEpoch(s1, epochId, now) ==
    Bind(tallyWinner(s1.epochAggregates[epochId].votesA,
                     s1.epochAggregates[epochId].votesB), LAMBDA winner :
    Bind([s1 EXCEPT !.epochAggregates[epochId].winner = winner,
                    !.epochAggregates[epochId].finalizedAt = now], LAMBDA s2 :
    Bind([s2 EXCEPT !.agents.A = applyEpochBankrollMutation(s2, @, winner)], LAMBDA s3 :
    Bind([s3 EXCEPT !.agents.B = applyEpochBankrollMutation(s3, @, winner)], LAMBDA s4 :
        [ st |-> [s4 EXCEPT !.epochHistory =
                     Take(<<epochHistoryEntry(s4, epochId, now)>> \o @, EPOCH_HISTORY_LIMIT)],
          changed |-> TRUE ]))))

\* finalizeEpochIfNeeded yields [st |-> the state after the call,
\* changed |-> the boolean it returns].
\* Variant: finalization without the early return on a finalized aggregate
finalizeEpochIfNeeded_noGuard(state, epochId, now) ==
    finalizeEpoch(ensureEpochAggregate(state, epochId), epochId, now)
finalizeEpochIfNeeded(state, epochId, now) ==
    Bind(ensureEpochAggregate(state, epochId), LAMBDA s1 :
        IF s1.epochAggregates[epochId].finalizedAt # Null
        THEN [st |-> s1, changed |-> FALSE]
        ELSE finalizeEpoch(s1, epochId, now))

\* Variant: the windows that have passed are collapsed into the last one
finalizeEpochsFrom_lastOnly(state, epochId, currentEpochId, now) ==
    IF epochId < currentEpochId
    THEN finalizeEpochIfNeeded(state, currentEpochId - 1, now).st
    ELSE state
\* for (epochId = from; epochId < currentEpochId; epochId += 1) finalizeEpochIfNeeded
RECURSIVE finalizeEpochsFrom(_, _, _, _)
finalizeEpochsFrom(state, epochId, currentEpochId, now) ==
    IF epochId < currentEpochId
    THEN finalizeEpochsFrom(finalizeEpochIfNeeded(state, epochId, now).st,
                            epochId + 1, currentEpochId, now)
    ELSE state

syncEpochLifecycle(state, now) ==
    Bind(ensureEpochAggregate(state, epochIdFromMs(now)), LAMBDA s1 :
        IF s1.lastEpochId = Null
        THEN [st |-> [s1 EXCEPT !.lastEpochId = epochIdFromMs(now)], changed |-> TRUE]
        ELSE IF epochIdFromMs(now) <= s1.lastEpochId
        THEN [st |-> s1, changed |-> FALSE]
        ELSE [st |-> [finalizeEpochsFrom(s1, s1.lastEpochId, epochIdFromMs(now), now)
                         EXCEPT !.lastEpochId = epochIdFromMs(now)],
              changed |-> TRUE])

-----------------------------------------------------------------------------
(* Loop controller and presence, matchStore.ts:1228-1294 *)

clipIdOf(clipIndex) == <<MatchId, clipIndex>>

\* Number(clipId.split("-").pop())
clipIndexOfId(clipId) == clipId[2]

pruneOldVotes(state) ==
    LET minClipIndex == Max(0, state.loop.processedClipCount - VOTE_RETENTION_CLIPS)
    IN  [state EXCEPT !.votesByClip =
            Remove(@, {clipId \in DOMAIN @ : clipIndexOfId(clipId) < minClipIndex})]

\* Variant: a resume that does not carry the accumulated elapsed time forward
resumeLoop_noCarry(state, now) ==
    IF state.loop.running
    THEN [st |-> state, changed |-> FALSE]
    ELSE [st |-> [state EXCEPT
                    !.loop.running = TRUE,
                    !.loop.runStartedAt = now,
                    !.loop.runStartElapsedMs = 0,
                    !.loop.startedAt = IF @ = Null THEN now ELSE @],
          changed |-> TRUE]
resumeLoop(state, now) ==
    IF state.loop.running
    THEN [st |-> state, changed |-> FALSE]
    ELSE [st |-> [state EXCEPT
                    !.loop.running = TRUE,
                    !.loop.runStartedAt = now,
                    !.loop.runStartElapsedMs = state.loop.elapsedMs,
                    !.loop.startedAt = IF @ = Null THEN now ELSE @],
          changed |-> TRUE]

\* Variant: a pause that reports a change even when the loop is already paused
pauseLoop_alwaysChanged(state, now) ==
    IF ~state.loop.running \/ state.loop.runStartedAt = Null
    THEN [st |-> state, changed |-> TRUE]
    ELSE
        LET activeElapsed == state.loop.runStartElapsedMs + (now - state.loop.runStartedAt)
            snappedElapsed == (activeElapsed \div CLIP_SLOT_MS) * CLIP_SLOT_MS
        IN  [st |-> [state EXCEPT
                        !.loop.elapsedMs = snappedElapsed,
                        !.loop.running = FALSE,
                        !.loop.runStartedAt = Null,
                        !.loop.runStartElapsedMs = snappedElapsed],
             changed |-> TRUE]
\* Variant: the elapsed time is kept as it is, not snapped down to a slot boundary
pauseLoop_noSnap(state, now) ==
    IF ~state.loop.running \/ state.loop.runStartedAt = Null
    THEN [st |-> state, changed |-> FALSE]
    ELSE
        LET activeElapsed == state.loop.runStartElapsedMs + (now - state.loop.runStartedAt)
            snappedElapsed == activeElapsed
        IN  [st |-> [state EXCEPT
                        !.loop.elapsedMs = snappedElapsed,
                        !.loop.running = FALSE,
                        !.loop.runStartedAt = Null,
                        !.loop.runStartElapsedMs = snappedElapsed],
             changed |-> TRUE]
pauseLoop(state, now) ==
    IF ~state.loop.running \/ state.loop.runStartedAt = Null
    THEN [st |-> state, changed |-> FALSE]
    ELSE
        LET activeElapsed == state.loop.runStartElapsedMs + (now - state.loop.runStartedAt)
            snappedElapsed == (activeElapsed \div CLIP_SLOT_MS) * CLIP_SLOT_MS
        IN  [st |-> [state EXCEPT
                        !.loop.elapsedMs = snappedElapsed,
                        !.loop.running = FALSE,
                        !.loop.runStartedAt = Null,
                        !.loop.runStartElapsedMs = snappedElapsed],
             changed |-> TRUE]

pruneStaleListeners(state, now) ==
    LET stale == {sessionId \in DOMAIN state.listeners :
                     now - state.listeners[sessionId] > LISTENER_TTL_MS}
    IN  [st |-> [state EXCEPT !.listeners = Remove(@, stale)],
         changed |-> stale # {}]

\* Variant: presence never resumes the loop
applyListenerDrivenLoop_pauseOnly(state, now) == pauseLoop(state, now)
applyListenerDrivenLoop(state, now) ==
    IF Cardinality(DOMAIN state.listeners) > 0
    THEN resumeLoop(state, now)
    ELSE pauseLoop(state, now)

-----------------------------------------------------------------------------
(* Turn materialization, matchStore.ts:1296-1362 *)

\* The history record of the turn, from the state after the outcome mutation
clipHistoryItem(s4, clipIndex, voteTally) ==
    LET agentId == activeAgentForClip(clipIndex)
        clipStartElapsed == clipIndex * CLIP_SLOT_MS
        startedAt == s4.loop.runStartedAt + (clipStartElapsed - s4.loop.runStartElapsedMs)
    IN  [ clipId |-> clipIdOf(clipIndex),
          clipIndex |-> clipIndex,
          epochId |-> epochIdFromMs(startedAt),
          agentId |-> agentId,
          startedAt |-> startedAt,
          endedAt |-> startedAt + CLIP_DURATION_MS,
          strategy |-> s4.agents[agentId].strategy,
          confidence |-> round3(s4.agents[agentId].confidence),
          voteTally |-> voteTally ]

\* Variant: the history keeps one item more than the limit
processCompletedClip_longHistory(state, clipIndex) ==
    IF state.loop.runStartedAt = Null
    THEN state
    ELSE
        Bind(ensureVoteState(state, clipIdOf(clipIndex)), LAMBDA s1 :
        Bind(toVoteTally(s1.votesByClip[clipIdOf(clipIndex)]), LAMBDA voteTally :
        Bind([s1 EXCEPT !.agents.A = applyOutcomeMutation(s1, @, voteTally.winner)], LAMBDA s2 :
        Bind([s2 EXCEPT !.agents.B = applyOutcomeMutation(s2, @, voteTally.winner)], LAMBDA s3 :
        Bind([s3 EXCEPT !.agents[activeAgentForClip(clipIndex)].clipsPlayed = @ + 1], LAMBDA s4 :
            pruneOldVotes(
                [s4 EXCEPT !.clipHistory =
                               Take(<<clipHistoryItem(s4, clipIndex, voteTally)>> \o @,
                                    HISTORY_LIMIT + 1),
                           !.loop.processedClipCount = @ + 1]))))))
processCompletedClip(state, clipIndex) ==
    IF state.loop.runStartedAt = Null
    THEN state
    ELSE
        Bind(ensureVoteState(state, clipIdOf(clipIndex)), LAMBDA s1 :
        Bind(toVoteTally(s1.votesByClip[clipIdOf(clipIndex)]), LAMBDA voteTally :
        Bind([s1 EXCEPT !.agents.A = applyOutcomeMutation(s1, @, voteTally.winner)], LAMBDA s2 :
        Bind([s2 EXCEPT !.agents.B = applyOutcomeMutation(s2, @, voteTally.winner)], LAMBDA s3 :
        Bind([s3 EXCEPT !.agents[activeAgentForClip(clipIndex)].clipsPlayed = @ + 1], LAMBDA s4 :
            pruneOldVotes(
                [s4 EXCEPT !.clipHistory =
                               Take(<<clipHistoryItem(s4, clipIndex, voteTally)>> \o @,
                                    HISTORY_LIMIT),
                           !.loop.processedClipCount = @ + 1]))))))

\* while (processedClipCount < completedClipCount) processCompletedClip(state,
\* processedClipCount): every iteration adds one to processedClipCount, so the
\* loop runs n = completedClipCount - processedClipCount times.  The n
\* applications are composed by halves to keep the evaluation depth logarithmic.
RECURSIVE processTimes(_, _)
processTimes(state, n) ==
    IF n <= 0 THEN state
    ELSE IF n = 1 THEN processCompletedClip(state, state.loop.processedClipCount)
    ELSE CHOOSE result \in {processTimes(half, n - n \div 2) :
                                half \in {processTimes(state, n \div 2)}} : TRUE

processUpTo(state, completedClipCount) ==
    processTimes(state, completedClipCount - state.loop.processedClipCount)

\* Variant: a turn counts as completed only when its whole slot has passed
completedClipCountAt_wholeSlot(elapsed) == elapsed \div CLIP_SLOT_MS
completedClipCountAt(elapsed) == (elapsed + CLIP_GAP_MS) \div CLIP_SLOT_MS

syncClipSimulation(state, now) ==
    IF ~state.loop.running
    THEN [st |-> state, changed |-> FALSE]
    ELSE
        LET elapsed == getActiveElapsedMs(state, now)
            completedClipCount == completedClipCountAt(elapsed)
        IN  [st |-> processUpTo(state, completedClipCount),
             changed |-> state.loop.processedClipCount < completedClipCount]

-----------------------------------------------------------------------------
(* Snapshot builder, matchStore.ts:1364-1526 *)

\* buildNowPlaying yields <<>> for null, else <<the clip now playing>>.
\* Variant: a turn that keeps playing through the gap after it
buildNowPlaying_noGap(state, now) ==
    IF ~state.loop.running
    THEN <<>>
    ELSE
        LET elapsed == getActiveElapsedMs(state, now)
            clipIndex == elapsed \div CLIP_SLOT_MS
            clipOffsetInSlot == elapsed % CLIP_SLOT_MS
            agentId == activeAgentForClip(clipIndex)
            startedAt == now - clipOffsetInSlot
        IN  << [ clipId |-> clipIdOf(clipIndex),
                 clipIndex |-> clipIndex,
                 agentId |-> agentId,
                 startedAt |-> startedAt,
                 endsAt |-> startedAt + CLIP_DURATION_MS,
                 durationMs |-> CLIP_DURATION_MS,
                 strategy |-> state.agents[agentId].strategy,
                 confidence |-> round3(state.agents[agentId].confidence) ] >>
buildNowPlaying(state, now) ==
    IF ~state.loop.running
    THEN <<>>
    ELSE
        LET elapsed == getActiveElapsedMs(state, now)
            clipIndex == elapsed \div CLIP_SLOT_MS
            clipOffsetInSlot == elapsed % CLIP_SLOT_MS
            agentId == activeAgentForClip(clipIndex)
            startedAt == now - clipOffsetInSlot
        IN  IF clipOffsetInSlot >= CLIP_DURATION_MS
            THEN <<>>
            ELSE << [ clipId |-> clipIdOf(clipIndex),
                      clipIndex |-> clipIndex,
                      agentId |-> agentId,
                      startedAt |-> startedAt,
                      endsAt |-> startedAt + CLIP_DURATION_MS,
                      durationMs |-> CLIP_DURATION_MS,
                      strategy |-> state.agents[agentId].strategy,
                      confidence |-> round3(state.agents[agentId].confidence) ] >>

\* <<>> for null
buildViewerBetSnapshot(state, currentEpochId, viewerAddress) ==
    Bind(normalizeAddress(viewerAddress), LAMBDA normalized :
        LET hasBet == /\ currentEpochId \in DOMAIN state.userBetsByEpoch
                      /\ normalized \in DOMAIN state.userBetsByEpoch[currentEpochId]
            amountAWei == IF hasBet THEN state.userBetsByEpoch[currentEpochId][normalized].amountAWei ELSE 0
            amountBWei == IF hasBet THEN state.userBetsByEpoch[currentEpochId][normalized].amountBWei ELSE 0
        IN  IF normalized = NoString
            THEN <<>>
            ELSE << [ epochId |-> currentEpochId,
                      amountAWei |-> amountAWei,
                      amountBWei |-> amountBWei,
                      totalWei |-> amountAWei + amountBWei,
                      hasBet |-> amountAWei + amountBWei # 0 ] >>)

RECURSIVE sortDescending(_)
sortDescending(S) ==
    IF S = {} THEN <<>>
    ELSE LET m == CHOOSE x \in S : \A y \in S : y <= x
         IN  <<m>> \o sortDescending(S \ {m})

\* The epochs of the viewer's unclaimed nonzero bets before the current epoch:
\* the ones the loop reaches ensureEpochAggregate for
betEpochsToInspect(state, currentEpochId, normalized) ==
    {epochId \in DOMAIN state.userBetsByEpoch :
        /\ epochId < currentEpochId
        /\ normalized \in DOMAIN state.userBetsByEpoch[epochId]
        /\ ~state.userBetsByEpoch[epochId][normalized].claimed
        /\ state.userBetsByEpoch[epochId][normalized].amountAWei
             + state.userBetsByEpoch[epochId][normalized].amountBWei # 0}

RECURSIVE ensureEpochAggregates(_, _)
ensureEpochAggregates(state, epochIds) ==
    IF epochIds = {} THEN state
    ELSE LET e == CHOOSE x \in epochIds : TRUE
         IN  ensureEpochAggregates(ensureEpochAggregate(state, e), epochIds \ {e})

\* Variant: every inspected epoch that is finalized, whoever won it
claimableEpochs_anyWinner(s1, inspected, normalized) ==
    {epochId \in inspected : s1.epochAggregates[epochId].finalizedAt # Null}
\* The inspected epochs that are finalized with the viewer's stake on the winner
claimableEpochs(s1, inspected, normalized) ==
    {epochId \in inspected :
        /\ s1.epochAggregates[epochId].finalizedAt # Null
        /\ \/ /\ s1.epochAggregates[epochId].winner = "A"
              /\ s1.userBetsByEpoch[epochId][normalized].amountAWei > 0
           \/ /\ s1.epochAggregates[epochId].winner = "B"
              /\ s1.userBetsByEpoch[epochId][normalized].amountBWei > 0}

\* [st |-> the state after the call, ids |-> the list it returns]
buildClaimableEpochIds(state, currentEpochId, viewerAddress) ==
    Bind(normalizeAddress(viewerAddress), LAMBDA normalized :
        IF normalized = NoString
        THEN [st |-> state, ids |-> <<>>]
        ELSE
            Bind(betEpochsToInspect(state, currentEpochId, normalized), LAMBDA inspected :
            Bind(ensureEpochAggregates(state, inspected), LAMBDA s1 :
                [st |-> s1, ids |-> sortDescending(claimableEpochs(s1, inspected, normalized))])))

toAgentState(agent) ==
    [ id |-> agent.id,
      strategy |-> agent.strategy,
      confidence |-> round3(agent.confidence),
      intensity |-> round3(agent.intensityBase),
      mutationSensitivity |-> round3(agent.mutationSensitivity),
      bankroll |-> round3(agent.bankroll),
      winCount |-> agent.winCount,
      lossCount |-> agent.lossCount,
      clipsPlayed |-> agent.clipsPlayed,
      wins |-> agent.wins,
      losses |-> agent.losses ]

\* The view, from the state as buildSnapshot leaves it
snapshotOf(state, now, nowPlaying, viewerBet, claimableEpochIds) ==
    LET listeners == Cardinality(DOMAIN state.listeners)
        currentEpochId == epochIdFromMs(now)
        currentEpoch == state.epochAggregates[currentEpochId]
    IN  [ kind |-> "snapshot",
          lobbyId |-> state.lobbyId,
          matchId |-> state.matchId,
          status |-> IF listeners > 0 THEN "LIVE" ELSE "IDLE",
          phase |-> IF nowPlaying # <<>>
                    THEN (IF nowPlaying[1].agentId = "A" THEN "A_PLAYING" ELSE "B_PLAYING")
                    ELSE "IDLE",
          listeners |-> listeners,
          clipDurationMs |-> CLIP_DURATION_MS,
          totalClipsPlayed |-> state.loop.processedClipCount,
          currentClipIndex |-> IF nowPlaying # <<>> THEN nowPlaying[1].clipIndex
                               ELSE state.loop.processedClipCount,
          loopStartedAt |-> state.loop.startedAt,
          nowPlaying |-> nowPlaying,
          currentVoteTally |->
              IF nowPlaying # <<>>
              THEN <<toVoteTally(state.votesByClip[nowPlaying[1].clipId])>>
              ELSE <<>>,
          clipHistory |-> state.clipHistory,
          currentEpoch |->
            [ epochId |-> currentEpochId,
              startedAt |-> epochStartMs(currentEpochId),
              endsAt |-> epochEndMs(currentEpochId),
              isOpen |-> now < epochEndMs(currentEpochId),
              isFinalized |-> currentEpoch.finalizedAt # Null,
              winner |-> currentEpoch.winner,
              votesA |-> currentEpoch.votesA,
              votesB |-> currentEpoch.votesB,
              totalBetAWei |-> currentEpoch.totalBetAWei,
              totalBetBWei |-> currentEpoch.totalBetBWei ],
          epochHistory |-> state.epochHistory,
          viewerBet |-> viewerBet,
          claimableEpochIds |-> claimableEpochIds,
          agents |-> <<toAgentState(state.agents.A), toAgentState(state.agents.B)>>,
          lastUpdatedAt |-> now ]

\* [st |-> the state after the call, snapshot |-> the view it returns]
buildSnapshot(state, now, viewerAddress) ==
    Bind(buildNowPlaying(state, now), LAMBDA nowPlaying :
    Bind(IF nowPlaying # <<>> THEN ensureVoteState(state, nowPlaying[1].clipId) ELSE state,
         LAMBDA s1 :
    Bind(ensureEpochAggregate(s1, epochIdFromMs(now)), LAMBDA s2 :
    Bind(buildClaimableEpochIds(s2, epochIdFromMs(now), viewerAddress), LAMBDA claim :
        [ st |-> claim.st,
          snapshot |->
              snapshotOf(s2, now, nowPlaying,
                         buildViewerBetSnapshot(s2, epochIdFromMs(now), viewerAddress),
                         claim.ids) ]))))

\* [st, changed (whether it wrote), snapshot]; the write itself is in the handlers
syncAndSnapshot(state, now, viewerAddress) ==
    Bind(pruneStaleListeners(state, now), LAMBDA stale :
    Bind(syncClipSimulation(stale.st, now), LAMBDA sim :
    Bind(applyListenerDrivenLoop(sim.st, now), LAMBDA loop :
    Bind(syncEpochLifecycle(loop.st, now), LAMBDA epoch :
    Bind(buildSnapshot(epoch.st, now, viewerAddress), LAMBDA built :
        [ st |-> built.st,
          changed |-> stale.changed \/ sim.changed \/ loop.changed \/ epoch.changed,
          snapshot |-> built.snapshot ])))))

-----------------------------------------------------------------------------
(* Reading a durable record back, matchStore.ts:331-737 *)

\* What the file of a lobby holds: a JSON object, given as the record of its
\* top-level fields (a field that is absent or of the wrong type is left out:
\* the typeof tests of the code treat the two alike); or text that JSON.parse
\* rejects; or JSON that is not an object (null, a number, a string).
Unparseable == [unparseable |-> TRUE]
NotAnObject == [scalar |-> TRUE]
Has(raw, field) == field \in DOMAIN raw

sanitizeListeners(input) ==
    [sessionId \in {id \in DOMAIN input : parseSessionId(id) # NoString} |-> input[sessionId]]

sanitizeAgent(input, fallback) ==
    [ id |-> fallback.id,
      strategy |-> IF input.strategy \in {"AGGRESSIVE", "ADAPTIVE", "SAFE"}
                   THEN input.strategy ELSE fallback.strategy,
      confidence |-> clamp(input.confidence, 100, 990),
      intensityBase |->
          clamp(input.intensityBase, LobbyConfig.intensityMin, LobbyConfig.intensityMax),
      tempoPressure |-> clamp(input.tempoPressure, 100, 990),
      mutationSensitivity |-> clamp(input.mutationSensitivity, 80, 1000),
      bankroll |-> Max(0, input.bankroll),
      winCount |-> Max(0, input.winCount),
      lossCount |-> Max(0, input.lossCount),
      clipsPlayed |-> Max(0, input.clipsPlayed),
      wins |-> Max(0, input.wins),
      losses |-> Max(0, input.losses) ]

\* Variant: the materialized count is not read back from the record
sanitizeLoop_countLost(input) ==
    [ running |-> IF Has(input, "running") THEN input.running ELSE FALSE,
      startedAt |-> IF Has(input, "startedAt") THEN input.startedAt ELSE Null,
      runStartedAt |-> IF Has(input, "runStartedAt") THEN input.runStartedAt ELSE Null,
      runStartElapsedMs |-> IF Has(input, "runStartElapsedMs")
                            THEN Max(0, input.runStartElapsedMs) ELSE 0,
      elapsedMs |-> IF Has(input, "elapsedMs") THEN Max(0, input.elapsedMs) ELSE 0,
      processedClipCount |-> 0 ]
sanitizeLoop(input) ==
    [ running |-> IF Has(input, "running") THEN input.running ELSE FALSE,
      startedAt |-> IF Has(input, "startedAt") THEN input.startedAt ELSE Null,
      runStartedAt |-> IF Has(input, "runStartedAt") THEN input.runStartedAt ELSE Null,
      runStartElapsedMs |-> IF Has(input, "runStartElapsedMs")
                            THEN Max(0, input.runStartElapsedMs) ELSE 0,
      elapsedMs |-> IF Has(input, "elapsedMs") THEN Max(0, input.elapsedMs) ELSE 0,
      processedClipCount |-> IF Has(input, "processedClipCount")
                             THEN Max(0, input.processedClipCount) ELSE 0 ]

\* Votes are kept under the normalized address and counted anew
sanitizeVoteState(input) ==
    [ clipId \in DOMAIN input |->
        Bind([address \in {a \in DOMAIN input[clipId].votes :
                              normalizeAddress(a) = a /\ input[clipId].votes[a] \in Sides}
                 |-> input[clipId].votes[address]],
             LAMBDA votes :
                 [ clipId |-> clipId,
                   votes |-> votes,
                   aVotes |-> Cardinality({a \in DOMAIN votes : votes[a] = "A"}),
                   bVotes |-> Cardinality({a \in DOMAIN votes : votes[a] = "B"}) ]) ]

sanitizeClipHistory(input) == Take(input, HISTORY_LIMIT)

sanitizeEpochAggregate(input, epochId) ==
    [ epochId |-> epochId,
      votesA |-> Max(0, input.votesA),
      votesB |-> Max(0, input.votesB),
      totalBetAWei |-> input.totalBetAWei,
      totalBetBWei |-> input.totalBetBWei,
      winner |-> input.winner,
      finalizedAt |-> input.finalizedAt ]

sanitizeEpochAggregates(input) ==
    [ epochId \in {e \in DOMAIN input : e >= 0} |-> sanitizeEpochAggregate(input[epochId], epochId) ]

\* Variant: the claimed flags are not read back
sanitizeUserBets_flagLost(input) ==
    [ epochId \in DOMAIN input |->
        [ address \in {a \in DOMAIN input[epochId] : normalizeAddress(a) = a} |->
            [input[epochId][address] EXCEPT !.claimed = FALSE] ] ]
sanitizeUserBets(input) ==
    [ epochId \in DOMAIN input |->
        [ address \in {a \in DOMAIN input[epochId] : normalizeAddress(a) = a} |->
            input[epochId][address] ] ]

sanitizeEpochHistory(input) == Take(input, EPOCH_HISTORY_LIMIT)

\* The aggregates read back, with an empty one for the epoch of the read when
\* the record has none
hydratedAggregates(raw, nowEpoch) ==
    Bind(IF Has(raw, "epochAggregates")
         THEN sanitizeEpochAggregates(raw.epochAggregates) ELSE EmptyMap,
         LAMBDA epochAggregates :
             IF nowEpoch \in DOMAIN epochAggregates
             THEN epochAggregates
             ELSE Put(epochAggregates, nowEpoch, emptyEpochAggregate(nowEpoch)))

\* Variant: a record lacking any field is given up for the defaults
hydrateLobbyState_allOrNothing(raw, now) ==
    IF DOMAIN raw # DOMAIN defaultLobbyState(now)
    THEN defaultLobbyState(now)
    ELSE [raw EXCEPT !.epochAggregates = hydratedAggregates(raw, epochIdFromMs(now))]
hydrateLobbyState(raw, now) ==
    IF Has(raw, "scalar")
    THEN defaultLobbyState(now)
    ELSE
        [ lobbyId |-> LobbyId,
          matchId |-> IF Has(raw, "matchId") THEN raw.matchId ELSE MatchId,
          listeners |-> IF Has(raw, "listeners") THEN sanitizeListeners(raw.listeners)
                        ELSE EmptyMap,
          loop |-> IF Has(raw, "loop") THEN sanitizeLoop(raw.loop) ELSE defaultLoopState,
          agents |->
              [ agentId \in AgentIds |->
                  IF Has(raw, "agents")
                  THEN sanitizeAgent(raw.agents[agentId], makeInitialAgents[agentId])
                  ELSE makeInitialAgents[agentId] ],
          clipHistory |-> IF Has(raw, "clipHistory") THEN sanitizeClipHistory(raw.clipHistory)
                          ELSE <<>>,
          votesByClip |-> IF Has(raw, "votesByClip") THEN sanitizeVoteState(raw.votesByClip)
                          ELSE EmptyMap,
          epochAggregates |-> hydratedAggregates(raw, epochIdFromMs(now)),
          userBetsByEpoch |-> IF Has(raw, "userBetsByEpoch")
                              THEN sanitizeUserBets(raw.userBetsByEpoch) ELSE EmptyMap,
          epochHistory |-> IF Has(raw, "epochHistory")
                           THEN sanitizeEpochHistory(raw.epochHistory) ELSE <<>>,
          lastEpochId |-> IF Has(raw, "lastEpochId") THEN Max(0, raw.lastEpochId)
                          ELSE epochIdFromMs(now),
          createdAt |-> IF Has(raw, "createdAt") THEN raw.createdAt ELSE now,
          updatedAt |-> IF Has(raw, "updatedAt") THEN raw.updatedAt ELSE now ]

-----------------------------------------------------------------------------
(* Lobby state store, matchStore.ts:739-764 *)

\* The state as written: updatedAt is stamped before the write
writeLobbyState(state, now) == [state EXCEPT !.updatedAt = now]

\* Cache hit; else the durable record, hydrated and cached (not written);
\* else (no record, or one that JSON.parse rejects) fresh defaults that are
\* written at once.
loadLobbyState(c, d, now) ==
    IF c # <<>>
    THEN [st |-> c[1], disk |-> d, wrote |-> FALSE]
    ELSE IF d # <<>> /\ ~Has(d[1], "unparseable")
    THEN [st |-> hydrateLobbyState(d[1], now), disk |-> d, wrote |-> FALSE]
    ELSE Bind(writeLobbyState(defaultLobbyState(now), now), LAMBDA initial :
             [st |-> initial, disk |-> <<initial>>, wrote |-> TRUE])

Error(name) == [kind |-> "error", error |-> name]

\* What a handler leaves behind when it runs the catch-up and then stops:
\* the state is cached, and written when the catch-up changed something
afterSync(loaded, synced, now, result) ==
    Bind(IF synced.changed THEN writeLobbyState(synced.st, now) ELSE synced.st, LAMBDA final :
        [ cache |-> <<final>>,
          disk |-> IF synced.changed THEN <<final>> ELSE loaded.disk,
          wrote |-> loaded.wrote \/ synced.changed,
          ret |-> result ])

afterWrite(state, now, result) ==
    Bind(writeLobbyState(state, now), LAMBDA final :
        [cache |-> <<final>>, disk |-> <<final>>, wrote |-> TRUE, ret |-> result])

-----------------------------------------------------------------------------
(* Exported operations, matchStore.ts:1536-1792.  Each yields                *)
(* [cache, disk, wrote, ret]: the store after the call and its result.       *)

getMatchSnapshot(c, d, now, viewerAddress) ==
    Bind(loadLobbyState(c, d, now), LAMBDA loaded :
    Bind(syncAndSnapshot(loaded.st, now, viewerAddress), LAMBDA synced :
        afterSync(loaded, synced, now, synced.snapshot)))

\* minted stands for `session_${Math.random()...}${Date.now()...}`
joinPresence(c, d, now, sessionIdRaw, minted) ==
    Bind(loadLobbyState(c, d, now), LAMBDA loaded :
    Bind(parseSessionId(sessionIdRaw), LAMBDA parsed :
    Bind(IF parsed # NoString THEN parsed ELSE minted, LAMBDA sessionId :
    Bind(syncAndSnapshot([loaded.st EXCEPT !.listeners = Put(@, sessionId, now)], now, NoString),
         LAMBDA synced :
        afterSync(loaded, synced, now,
                  [kind |-> "join", sessionId |-> sessionId, snapshot |-> synced.snapshot])))))

leavePresence(c, d, now, sessionIdRaw) ==
    Bind(loadLobbyState(c, d, now), LAMBDA loaded :
    Bind(parseSessionId(sessionIdRaw), LAMBDA sessionId :
    Bind(syncAndSnapshot(IF sessionId # NoString
                         THEN [loaded.st EXCEPT !.listeners = Remove(@, {sessionId})]
                         ELSE loaded.st,
                         now, NoString), LAMBDA synced :
        afterSync(loaded, synced, now, synced.snapshot))))

\* input: [clipId, side, address]
\* recordVote: the vote is recorded in the turn's ledger and tally and in the epoch's counts
\* Variant: the vote is counted but the voter is not entered in the ledger
recordVote_noLedger(s1, now, input, normalizedAddress) ==
    Bind([s1 EXCEPT
            !.votesByClip[input.clipId].aVotes = IF input.side = "A" THEN @ + 1 ELSE @,
            !.votesByClip[input.clipId].bVotes = IF input.side = "B" THEN @ + 1 ELSE @],
         LAMBDA s2 :
    Bind(ensureEpochAggregate(s2, epochIdFromMs(now)), LAMBDA s3 :
        [s3 EXCEPT
            !.epochAggregates[epochIdFromMs(now)].votesA = IF input.side = "A" THEN @ + 1 ELSE @,
            !.epochAggregates[epochIdFromMs(now)].votesB = IF input.side = "B" THEN @ + 1 ELSE @]))
recordVote(s1, now, input, normalizedAddress) ==
    Bind([s1 EXCEPT
            !.votesByClip[input.clipId].votes = Put(@, normalizedAddress, input.side),
            !.votesByClip[input.clipId].aVotes = IF input.side = "A" THEN @ + 1 ELSE @,
            !.votesByClip[input.clipId].bVotes = IF input.side = "B" THEN @ + 1 ELSE @],
         LAMBDA s2 :
    Bind(ensureEpochAggregate(s2, epochIdFromMs(now)), LAMBDA s3 :
        [s3 EXCEPT
            !.epochAggregates[epochIdFromMs(now)].votesA = IF input.side = "A" THEN @ + 1 ELSE @,
            !.epochAggregates[epochIdFromMs(now)].votesB = IF input.side = "B" THEN @ + 1 ELSE @]))

voteResult(s4, input) ==
    [ kind |-> "vote",
      clipId |-> input.clipId,
      aVotes |-> s4.votesByClip[input.clipId].aVotes,
      bVotes |-> s4.votesByClip[input.clipId].bVotes,
      winner |-> tallyWinner(s4.votesByClip[input.clipId].aVotes,
                             s4.votesByClip[input.clipId].bVotes),
      userVote |-> input.side ]

castVote(c, d, now, input) ==
    IF input.side \notin Sides
    THEN [cache |-> c, disk |-> d, wrote |-> FALSE, ret |-> Error("InvalidSide")]
    ELSE
    Bind(normalizeAddress(input.address), LAMBDA normalizedAddress :
        IF normalizedAddress = NoString
        THEN [cache |-> c, disk |-> d, wrote |-> FALSE, ret |-> Error("InvalidAddress")]
        ELSE
        Bind(loadLobbyState(c, d, now), LAMBDA loaded :
        Bind(syncAndSnapshot(loaded.st, now, NoString), LAMBDA synced :
        Bind(buildNowPlaying(synced.st, now), LAMBDA nowPlaying :
            IF nowPlaying = <<>>
            THEN afterSync(loaded, synced, now, Error("LobbyIdle"))
            ELSE IF nowPlaying[1].clipId # input.clipId
            THEN afterSync(loaded, synced, now, Error("TurnMismatch"))
            ELSE
            Bind(ensureVoteState(synced.st, input.clipId), LAMBDA s1 :
                IF normalizedAddress \in DOMAIN s1.votesByClip[input.clipId].votes
                THEN afterSync(loaded, [synced EXCEPT !.st = s1], now, Error("AlreadyVoted"))
                ELSE Bind(recordVote(s1, now, input, normalizedAddress), LAMBDA s4 :
                         afterWrite(s4, now, voteResult(s4, input))))))))

\* input: [epochId, side, amountWei, address]
\* The stake is added to the epoch's total and to the bettor's record
\* Variant: the stake is entered in the bettor's record and not in the epoch's total
recordBet_noTotal(s1, currentEpochId, input, normalizedAddress) ==
    LET byAddress == IF currentEpochId \in DOMAIN s1.userBetsByEpoch
                     THEN s1.userBetsByEpoch[currentEpochId]
                     ELSE EmptyMap
        existing == IF normalizedAddress \in DOMAIN byAddress
                    THEN byAddress[normalizedAddress]
                    ELSE [amountAWei |-> 0, amountBWei |-> 0, claimed |-> FALSE]
        updated == [ amountAWei |-> IF input.side = "A"
                                    THEN existing.amountAWei + input.amountWei
                                    ELSE existing.amountAWei,
                     amountBWei |-> IF input.side = "B"
                                    THEN existing.amountBWei + input.amountWei
                                    ELSE existing.amountBWei,
                     claimed |-> FALSE ]
    IN  [s1 EXCEPT
            !.epochAggregates[currentEpochId].totalBetAWei =
                @,
            !.epochAggregates[currentEpochId].totalBetBWei =
                @,
            !.userBetsByEpoch =
                Put(@, currentEpochId, Put(byAddress, normalizedAddress, updated))]
recordBet(s1, currentEpochId, input, normalizedAddress) ==
    LET byAddress == IF currentEpochId \in DOMAIN s1.userBetsByEpoch
                     THEN s1.userBetsByEpoch[currentEpochId]
                     ELSE EmptyMap
        existing == IF normalizedAddress \in DOMAIN byAddress
                    THEN byAddress[normalizedAddress]
                    ELSE [amountAWei |-> 0, amountBWei |-> 0, claimed |-> FALSE]
        updated == [ amountAWei |-> IF input.side = "A"
                                    THEN existing.amountAWei + input.amountWei
                                    ELSE existing.amountAWei,
                     amountBWei |-> IF input.side = "B"
                                    THEN existing.amountBWei + input.amountWei
                                    ELSE existing.amountBWei,
                     claimed |-> FALSE ]
    IN  [s1 EXCEPT
            !.epochAggregates[currentEpochId].totalBetAWei =
                IF input.side = "A" THEN @ + input.amountWei ELSE @,
            !.epochAggregates[currentEpochId].totalBetBWei =
                IF input.side = "B" THEN @ + input.amountWei ELSE @,
            !.userBetsByEpoch =
                Put(@, currentEpochId, Put(byAddress, normalizedAddress, updated))]

betResult(s3, currentEpochId, normalizedAddress) ==
    [ kind |-> "bet",
      epochId |-> currentEpochId,
      totalBetAWei |-> s3.epochAggregates[currentEpochId].totalBetAWei,
      totalBetBWei |-> s3.epochAggregates[currentEpochId].totalBetBWei,
      userAmountAWei |-> s3.userBetsByEpoch[currentEpochId][normalizedAddress].amountAWei,
      userAmountBWei |-> s3.userBetsByEpoch[currentEpochId][normalizedAddress].amountBWei ]

\* Variant: the stake is booked on the open epoch whatever epoch the bet names
registerBet_anyEpoch(c, d, now, input) ==
    Bind(normalizeAddress(input.address), LAMBDA normalizedAddress :
        IF normalizedAddress = NoString
        THEN [cache |-> c, disk |-> d, wrote |-> FALSE, ret |-> Error("InvalidAddress")]
        ELSE IF input.side \notin Sides
        THEN [cache |-> c, disk |-> d, wrote |-> FALSE, ret |-> Error("InvalidSide")]
        ELSE IF ~isWeiLike(input.amountWei) \/ input.amountWei <= 0
        THEN [cache |-> c, disk |-> d, wrote |-> FALSE, ret |-> Error("InvalidAmount")]
        ELSE
        Bind(loadLobbyState(c, d, now), LAMBDA loaded :
        Bind(syncAndSnapshot(loaded.st, now, NoString), LAMBDA synced :
            IF FALSE
            THEN afterSync(loaded, synced, now, Error("EpochMismatch"))
            ELSE
            Bind(recordBet(ensureEpochAggregate(synced.st, epochIdFromMs(now)),
                           epochIdFromMs(now), input, normalizedAddress), LAMBDA s3 :
                afterWrite(s3, now, betResult(s3, epochIdFromMs(now), normalizedAddress))))))
registerBet(c, d, now, input) ==
    Bind(normalizeAddress(input.address), LAMBDA normalizedAddress :
        IF normalizedAddress = NoString
        THEN [cache |-> c, disk |-> d, wrote |-> FALSE, ret |-> Error("InvalidAddress")]
        ELSE IF input.side \notin Sides
        THEN [cache |-> c, disk |-> d, wrote |-> FALSE, ret |-> Error("InvalidSide")]
        ELSE IF ~isWeiLike(input.amountWei) \/ input.amountWei <= 0
        THEN [cache |-> c, disk |-> d, wrote |-> FALSE, ret |-> Error("InvalidAmount")]
        ELSE
        Bind(loadLobbyState(c, d, now), LAMBDA loaded :
        Bind(syncAndSnapshot(loaded.st, now, NoString), LAMBDA synced :
            IF epochIdFromMs(now) # input.epochId
            THEN afterSync(loaded, synced, now, Error("EpochMismatch"))
            ELSE
            Bind(recordBet(ensureEpochAggregate(synced.st, epochIdFromMs(now)),
                           epochIdFromMs(now), input, normalizedAddress), LAMBDA s3 :
                afterWrite(s3, now, betResult(s3, epochIdFromMs(now), normalizedAddress))))))

Void == [kind |-> "void"]

\* input: [epochId, address]
\* The cached state is mutated (or not) and nothing is written
unwritten(loaded, state) ==
    [cache |-> <<state>>, disk |-> loaded.disk, wrote |-> loaded.wrote, ret |-> Void]

\* Variant: the flag is set without looking at the side of the stake
markClaimed_anyStake(c, d, now, input) ==
    Bind(normalizeAddress(input.address), LAMBDA normalizedAddress :
        IF normalizedAddress = NoString
        THEN [cache |-> c, disk |-> d, wrote |-> FALSE, ret |-> Error("InvalidAddress")]
        ELSE
        Bind(loadLobbyState(c, d, now), LAMBDA loaded :
            IF ~(/\ input.epochId \in DOMAIN loaded.st.userBetsByEpoch
                 /\ normalizedAddress \in DOMAIN loaded.st.userBetsByEpoch[input.epochId])
            THEN unwritten(loaded, loaded.st)
            ELSE
            Bind(ensureEpochAggregate(loaded.st, input.epochId), LAMBDA s1 :
                LET aggregate == s1.epochAggregates[input.epochId]
                    bet == s1.userBetsByEpoch[input.epochId][normalizedAddress]
                    hasWinningAmount ==
                        \/ aggregate.winner = "A" /\ bet.amountAWei > 0
                        \/ aggregate.winner = "B" /\ bet.amountBWei > 0
                IN  IF \/ aggregate.finalizedAt = Null
                       \/ aggregate.winner = "null"
                       \/ aggregate.winner = "TIE"
                    THEN unwritten(loaded, s1)
                    ELSE IF FALSE
                    THEN unwritten(loaded, s1)
                    ELSE afterWrite(
                            [s1 EXCEPT !.userBetsByEpoch[input.epochId][normalizedAddress].claimed = TRUE],
                            now, Void))))
markClaimed(c, d, now, input) ==
    Bind(normalizeAddress(input.address), LAMBDA normalizedAddress :
        IF normalizedAddress = NoString
        THEN [cache |-> c, disk |-> d, wrote |-> FALSE, ret |-> Error("InvalidAddress")]
        ELSE
        Bind(loadLobbyState(c, d, now), LAMBDA loaded :
            IF ~(/\ input.epochId \in DOMAIN loaded.st.userBetsByEpoch
                 /\ normalizedAddress \in DOMAIN loaded.st.userBetsByEpoch[input.epochId])
            THEN unwritten(loaded, loaded.st)
            ELSE
            Bind(ensureEpochAggregate(loaded.st, input.epochId), LAMBDA s1 :
                LET aggregate == s1.epochAggregates[input.epochId]
                    bet == s1.userBetsByEpoch[input.epochId][normalizedAddress]
                    hasWinningAmount ==
                        \/ aggregate.winner = "A" /\ bet.amountAWei > 0
                        \/ aggregate.winner = "B" /\ bet.amountBWei > 0
                IN  IF \/ aggregate.finalizedAt = Null
                       \/ aggregate.winner = "null"
                       \/ aggregate.winner = "TIE"
                    THEN unwritten(loaded, s1)
                    ELSE IF ~hasWinningAmount
                    THEN unwritten(loaded, s1)
                    ELSE afterWrite(
                            [s1 EXCEPT !.userBetsByEpoch[input.epochId][normalizedAddress].claimed = TRUE],
                            now, Void))))

\* Variant: the presence map is kept whatever the caller asks
resetLobbyState_keepListeners(c, d, now, clearListeners) ==
    Bind(loadLobbyState(c, d, now), LAMBDA loaded :
    Bind(writeLobbyState(
            [loaded.st EXCEPT
                !.listeners = @,
                !.agents = makeInitialAgents,
                !.clipHistory = <<>>,
                !.votesByClip = EmptyMap,
                !.loop = defaultLoopState,
                !.epochAggregates =
                    Put(EmptyMap, epochIdFromMs(now), emptyEpochAggregate(epochIdFromMs(now))),
                !.userBetsByEpoch = EmptyMap,
                !.epochHistory = <<>>,
                !.lastEpochId = epochIdFromMs(now)],
            now), LAMBDA written :
    Bind(buildSnapshot(written, now, NoString), LAMBDA built :
        [cache |-> <<built.st>>, disk |-> <<written>>, wrote |-> TRUE, ret |-> built.snapshot])))
resetLobbyState(c, d, now, clearListeners) ==
    Bind(loadLobbyState(c, d, now), LAMBDA loaded :
    Bind(writeLobbyState(
            [loaded.st EXCEPT
                !.listeners = IF clearListeners THEN EmptyMap ELSE @,
                !.agents = makeInitialAgents,
                !.clipHistory = <<>>,
                !.votesByClip = EmptyMap,
                !.loop = defaultLoopState,
                !.epochAggregates =
                    Put(EmptyMap, epochIdFromMs(now), emptyEpochAggregate(epochIdFromMs(now))),
                !.userBetsByEpoch = EmptyMap,
                !.epochHistory = <<>>,
                !.lastEpochId = epochIdFromMs(now)],
            now), LAMBDA written :
    Bind(buildSnapshot(written, now, NoString), LAMBDA built :
        [cache |-> <<built.st>>, disk |-> <<written>>, wrote |-> TRUE, ret |-> built.snapshot])))

startMatch(c, d, now) == resetLobbyState(c, d, now, FALSE)

resetMatch(c, d, now) == resetLobbyState(c, d, now, TRUE)

-----------------------------------------------------------------------------
(* The engine as a state machine: one action per exported operation, each   *)
(* taking Date.now() from the clock.                                         *)

\* No session of the presence map is within its TTL at time t
noLive(state, t) ==
    \A sessionId \in DOMAIN state.listeners : t - state.listeners[sessionId] > LISTENER_TTL_MS

loopStarted(c) == c # <<>> /\ c[1].loop.startedAt # Null

\* contPresence after a step that leaves the cache c2 at time t
nextContPresence(c2, t) ==
    IF ~loopStarted(c2) THEN TRUE
    ELSE (loopStarted(cache) => contPresence) /\ ~noLive(c2[1], t)

Apply(result) ==
    /\ calls < MaxCalls
    /\ calls' = calls + 1
    /\ cache' = result.cache
    /\ disk' = result.disk
    /\ contPresence' = nextContPresence(result.cache, clock)
    /\ UNCHANGED <<clock, ticks, shadow, runtimeAgent, pass, addressed, lobbies, heap, requests>>

\* The turn index a client would name: the slot the clock is in, or the one before
slotIndexOf(c, now) == IF c = <<>> THEN 0 ELSE getActiveElapsedMs(c[1], now) \div CLIP_SLOT_MS
VoteClipIdsOf(c, now) ==
    {clipIdOf(i) : i \in {slotIndexOf(c, now), Max(0, slotIndexOf(c, now) - 1)}}
        \cup {<<"OTHER-MATCH", 0>>}
VoteInputsOf(c, now) ==
    [clipId : VoteClipIdsOf(c, now), side : Sides, address : VoteAddresses]

BetEpochIdsOf(now) == {epochIdFromMs(now), Max(0, epochIdFromMs(now) - 1)}
BetInputsOf(now) ==
    [epochId : BetEpochIdsOf(now), side : Sides, amountWei : BetAmounts, address : BetAddresses]
ClaimInputsOf(now) == [epochId : BetEpochIdsOf(now), address : BetAddresses]

\* stateFilePath, matchStore.ts:131-133: one file per lobby id in the
\* temporary directory
\* No lobby state object yet, and no cache entry
EmptyHeap == [objects |-> <<>>, cached |-> <<>>]

\* Variant: one file for all the lobbies
stateFilePath_shared(lobbyId) == <<"tmpdir", "phonk-arena-lobby-", ".json">>
stateFilePath(lobbyId) == <<"tmpdir", "phonk-arena-lobby-", lobbyId, ".json">>

\* The process-wide cache (getStateCache, 123-129) and the files, all empty
EmptyStore ==
    [ caches |-> [lobbyId \in LobbyIds |-> <<>>],
      files |-> [path \in {stateFilePath(lobbyId) : lobbyId \in LobbyIds} |-> <<>>],
      request |-> "" ]

Init ==
    /\ clock = T0
    /\ ticks = 0
    /\ calls = 0
    /\ cache = <<>>
    /\ disk = <<>>
    /\ contPresence = TRUE
    /\ shadow = <<>>
    /\ runtimeAgent = <<>>
    /\ pass = <<>>
    /\ addressed = "drift-hard"
    /\ lobbies = EmptyStore
    /\ heap = EmptyHeap
    /\ requests = <<>>

Tick ==
    /\ ticks < MaxTicks
    /\ \E d \in TickSteps : clock' = clock + d
    /\ ticks' = ticks + 1
    /\ contPresence' = nextContPresence(cache, clock')
    /\ UNCHANGED <<calls, cache, disk, shadow, runtimeAgent, pass, addressed, lobbies, heap, requests>>

GetSnapshot ==
    \E viewer \in Viewers : Apply(getMatchSnapshot(cache, disk, clock, viewer))

Join ==
    \E raw \in SessionInputs, k \in 1..MaxMinted :
        Apply(joinPresence(cache, disk, clock, raw, mintedSession(k)))

Leave ==
    \E raw \in SessionInputs : Apply(leavePresence(cache, disk, clock, raw))

CastVote ==
    \E input \in VoteInputsOf(cache, clock) : Apply(castVote(cache, disk, clock, input))

RegisterBet ==
    \E input \in BetInputsOf(clock) : Apply(registerBet(cache, disk, clock, input))

MarkClaimed ==
    \E input \in ClaimInputsOf(clock) : Apply(markClaimed(cache, disk, clock, input))

StartMatch == Apply(startMatch(cache, disk, clock))

ResetMatch == Apply(resetMatch(cache, disk, clock))

Next ==
    \/ Tick
    \/ GetSnapshot
    \/ Join
    \/ Leave
    \/ CastVote
    \/ RegisterBet
    \/ MarkClaimed
    \/ StartMatch
    \/ ResetMatch

Spec == Init /\ [][Next]_vars

-----------------------------------------------------------------------------
(* One timeline of events applied to two copies of the lobby: `cache` also  *)
(* serves read-only polls (GetSnapshot), `shadow` serves none.  Both copies *)
(* exist from T0 on, so that a poll never decides when the lobby is created.*)

InitPoll ==
    /\ addressed = "drift-hard"
    /\ clock = T0
    /\ ticks = 0
    /\ calls = 0
    /\ cache = <<writeLobbyState(defaultLobbyState(T0), T0)>>
    /\ disk = cache
    /\ contPresence = TRUE
    /\ shadow = cache
    /\ runtimeAgent = <<>>
    /\ pass = <<>>
    /\ lobbies = EmptyStore
    /\ heap = EmptyHeap
    /\ requests = <<>>

ApplyBoth(polled, unpolled) ==
    /\ calls < MaxCalls
    /\ calls' = calls + 1
    /\ cache' = polled.cache
    /\ disk' = polled.disk
    /\ shadow' = unpolled.cache
    /\ contPresence' = nextContPresence(polled.cache, clock)
    /\ UNCHANGED <<clock, ticks, runtimeAgent, pass, addressed, lobbies, heap, requests>>

EventJoin ==
    \E raw \in SessionInputs, k \in 1..MaxMinted :
        ApplyBoth(joinPresence(cache, disk, clock, raw, mintedSession(k)),
                  joinPresence(shadow, shadow, clock, raw, mintedSession(k)))

EventLeave ==
    \E raw \in SessionInputs :
        ApplyBoth(leavePresence(cache, disk, clock, raw),
                  leavePresence(shadow, shadow, clock, raw))

EventVote ==
    \E input \in VoteInputsOf(cache, clock) :
        ApplyBoth(castVote(cache, disk, clock, input),
                  castVote(shadow, shadow, clock, input))

NextPoll ==
    \/ Tick
    \/ GetSnapshot
    \/ EventJoin
    \/ EventLeave
    \/ EventVote

SpecPoll == InitPoll /\ [][NextPoll]_vars

-----------------------------------------------------------------------------
(* Claims *)

\* What C1 compares: the materialized-turn count, the turn records (index,
\* acting side, tally, winner) and both agents' states
outcomeOf(state) ==
    [ count |-> state.loop.processedClipCount,
      turns |-> [i \in DOMAIN state.clipHistory |->
                    [ clipIndex |-> state.clipHistory[i].clipIndex,
                      agentId |-> state.clipHistory[i].agentId,
                      voteTally |-> state.clipHistory[i].voteTally ]],
      agents |-> state.agents ]

\* The lobby state after a catch-up at time now
caughtUp(state, now) == syncAndSnapshot(state, now, NoString).st

\* C1: for one timeline of join, leave and vote calls, the polled copy and the
\* unpolled copy, once both are caught up to the same now, have the same
\* materialized-turn count, the same turn records and the same agent states.
C1_PollScheduleIrrelevant ==
    outcomeOf(caughtUp(cache[1], clock)) = outcomeOf(caughtUp(shadow[1], clock))

\* P holds of the result of every call of the kind at time now on the store
\* (c, d); each result is computed once and then handed to P
EverySnapshot(c, d, now, P(_)) ==
    \A viewer \in Viewers : \A r \in {getMatchSnapshot(c, d, now, viewer)} : P(r)
EveryJoin(c, d, now, P(_)) ==
    \A raw \in SessionInputs, k \in 1..MaxMinted :
        \A r \in {joinPresence(c, d, now, raw, mintedSession(k))} : P(r)
EveryLeave(c, d, now, P(_)) ==
    \A raw \in SessionInputs : \A r \in {leavePresence(c, d, now, raw)} : P(r)
EveryVote(c, d, now, P(_)) ==
    \A input \in VoteInputsOf(c, now) : \A r \in {castVote(c, d, now, input)} : P(r)
EveryBet(c, d, now, P(_)) ==
    \A input \in BetInputsOf(now) : \A r \in {registerBet(c, d, now, input)} : P(r)
EveryClaim(c, d, now, P(_)) ==
    \A input \in ClaimInputsOf(now) : \A r \in {markClaimed(c, d, now, input)} : P(r)
EveryNonReset(c, d, now, P(_)) ==
    /\ EverySnapshot(c, d, now, P)
    /\ EveryJoin(c, d, now, P)
    /\ EveryLeave(c, d, now, P)
    /\ EveryVote(c, d, now, P)
    /\ EveryBet(c, d, now, P)
    /\ EveryClaim(c, d, now, P)

countOf(c) == IF c = <<>> THEN 0 ELSE c[1].loop.processedClipCount
elapsedOf(c, now) == IF c = <<>> THEN 0 ELSE getActiveElapsedMs(c[1], now)

\* C2: a second getSnapshot with the same now and nothing in between returns
\* the same snapshot, writes nothing and leaves the lobby state as the first
\* call left it.
C2_SnapshotIdempotent ==
    \A viewer \in Viewers :
        LET first == getMatchSnapshot(cache, disk, clock, viewer)
            second == getMatchSnapshot(first.cache, first.disk, clock, viewer)
        IN  /\ second.ret = first.ret
            /\ ~second.wrote
            /\ second.cache = first.cache
            /\ second.disk = first.disk

\* The first call pruned a session, materialized turns, paused the loop and
\* closed an epoch, and wrote; the second call repeats its snapshot.
C2_Witness ==
    /\ cache # <<>>
    /\ LET first == getMatchSnapshot(cache, disk, clock, NoString)
           second == getMatchSnapshot(first.cache, first.disk, clock, NoString)
       IN  /\ first.wrote
           /\ DOMAIN first.cache[1].listeners # DOMAIN cache[1].listeners
           /\ countOf(first.cache) > countOf(cache)
           /\ cache[1].loop.running /\ ~first.cache[1].loop.running
           /\ Len(first.cache[1].epochHistory) > Len(cache[1].epochHistory)
           /\ second.ret = first.ret

\* C3 as stated: with continuous presence from loop start, a catch-up at
\* active elapsed time T leaves exactly floor(T / slot) materialized turns.
C3_ExactlyFloorOfElapsed ==
    (contPresence /\ loopStarted(cache)) =>
        LET state == caughtUp(cache[1], clock)
            T == clock - state.loop.startedAt
        IN  /\ getActiveElapsedMs(state, clock) = T
            /\ state.loop.processedClipCount = T \div CLIP_SLOT_MS

\* C3 amended: with continuous presence from loop start, a catch-up at active
\* elapsed time T leaves exactly floor((T + gap) / slot) materialized turns
\* (a turn is materialized when its 10 s of playback end), and the history
\* list holds the last HISTORY_LIMIT of them.
C3_ExactlyCompletedPlaybacks ==
    (contPresence /\ loopStarted(cache)) =>
        LET state == caughtUp(cache[1], clock)
            T == clock - state.loop.startedAt
            N == (T + CLIP_GAP_MS) \div CLIP_SLOT_MS
        IN  /\ getActiveElapsedMs(state, clock) = T
            /\ state.loop.processedClipCount = N
            /\ Len(state.clipHistory) = Min(N, HISTORY_LIMIT)

\* Presence was continuous, the catch-up comes inside a gap between turns and
\* materializes turns the cached state does not hold yet.
C3_Witness ==
    /\ contPresence
    /\ loopStarted(cache)
    /\ LET state == caughtUp(cache[1], clock)
           T == clock - state.loop.startedAt
       IN  /\ T % CLIP_SLOT_MS >= CLIP_DURATION_MS
           /\ state.loop.processedClipCount > countOf(cache)
           /\ state.loop.processedClipCount = T \div CLIP_SLOT_MS + 1

\* C4 as stated: the count of materialized turns never decreases from one
\* operation to the next (reset aside) and is at most
\* floor(elapsed-active / slot).
C4_CountWithinFloor ==
    /\ countOf(cache) <= elapsedOf(cache, clock) \div CLIP_SLOT_MS
    /\ EveryNonReset(cache, disk, clock, LAMBDA r :
          /\ countOf(r.cache) >= countOf(cache)
          /\ countOf(r.cache) <= elapsedOf(r.cache, clock) \div CLIP_SLOT_MS)

\* C4 amended: the count of materialized turns never decreases from one
\* operation to the next (reset aside) and is at most
\* floor(elapsed-active / slot) + 1.
C4_CountWithinFloorPlusOne ==
    /\ countOf(cache) <= elapsedOf(cache, clock) \div CLIP_SLOT_MS + 1
    /\ EveryNonReset(cache, disk, clock, LAMBDA r :
          /\ countOf(r.cache) >= countOf(cache)
          /\ countOf(r.cache) <= elapsedOf(r.cache, clock) \div CLIP_SLOT_MS + 1)

\* A paused loop whose count is one above floor(elapsed / slot), resumed by a
\* join without losing a turn.
C4_Witness ==
    /\ cache # <<>>
    /\ ~cache[1].loop.running
    /\ countOf(cache) >= 2
    /\ countOf(cache) = elapsedOf(cache, clock) \div CLIP_SLOT_MS + 1
    /\ LET r == joinPresence(cache, disk, clock, Session1, mintedSession(1))
       IN  r.cache[1].loop.running /\ countOf(r.cache) = countOf(cache)

IdleDurations == {CLIP_SLOT_MS, 2 * CLIP_SLOT_MS}

\* Every session of the presence map has expired while the loop still runs
expiredUnnoticed ==
    /\ cache # <<>>
    /\ cache[1].loop.running
    /\ DOMAIN cache[1].listeners # {}
    /\ noLive(cache[1], clock)

\* C5: once every session has expired, the number of turns the next engine
\* call (a getSnapshot, or a join by a new session) adds does not grow with
\* the further time D that passes before that call.
C5_IdleTimeAddsNoTurns ==
    expiredUnnoticed =>
        \A D \in IdleDurations :
            /\ \A viewer \in Viewers :
                  countOf(getMatchSnapshot(cache, disk, clock + D, viewer).cache)
                      = countOf(getMatchSnapshot(cache, disk, clock, viewer).cache)
            /\ \A k \in 1..MaxMinted :
                  mintedSession(k) \notin DOMAIN cache[1].listeners =>
                      countOf(joinPresence(cache, disk, clock + D, SessionBad, mintedSession(k)).cache)
                          = countOf(joinPresence(cache, disk, clock, SessionBad, mintedSession(k)).cache)

present(c) == c # <<>> /\ DOMAIN c[1].listeners # {}
running(c) == c # <<>> /\ c[1].loop.running
ValidationErrors == {Error("InvalidSide"), Error("InvalidAddress"), Error("InvalidAmount")}

runningIffPresent(r) == running(r.cache) <=> present(r.cache)

voted(state, clipId, address) ==
    /\ normalizeAddress(address) # NoString
    /\ normalizeAddress(address) \in DOMAIN state.votesByClip[clipId].votes

\* The call left the clip's tally and every epoch's vote counts as they were
votesUnchanged(state, clipId, r) ==
    /\ r.cache # <<>>
    /\ clipId \in DOMAIN r.cache[1].votesByClip =>
          r.cache[1].votesByClip[clipId] = state.votesByClip[clipId]
    /\ \A e \in DOMAIN state.epochAggregates :
          /\ e \in DOMAIN r.cache[1].epochAggregates
          /\ r.cache[1].epochAggregates[e].votesA = state.epochAggregates[e].votesA
          /\ r.cache[1].epochAggregates[e].votesB = state.epochAggregates[e].votesB

\* C7 as stated: a second vote for a turn from an address that already voted
\* for it fails with AlreadyVoted, whichever side it names and whenever it
\* arrives, and leaves the turn's tally and the epochs' vote counts unchanged.
C7_SecondVoteAlreadyVoted ==
    cache # <<>> =>
        \A clipId \in DOMAIN cache[1].votesByClip, address \in VoteAddresses, side \in Sides :
            voted(cache[1], clipId, address) =>
                \A r \in {castVote(cache, disk, clock,
                                   [clipId |-> clipId, side |-> side, address |-> address])} :
                    /\ r.ret = Error("AlreadyVoted")
                    /\ votesUnchanged(cache[1], clipId, r)

\* C7 amended: a second vote for a turn from an address that already voted
\* for it never succeeds and leaves the turn's tally and the epochs' vote
\* counts unchanged; it fails with AlreadyVoted while that turn is the one
\* playing, with TurnMismatch when another turn is playing and with LobbyIdle
\* when nothing is playing.
C7_SecondVoteRejected ==
    cache # <<>> =>
        \A state \in {caughtUp(cache[1], clock)} :
            LET elapsed == getActiveElapsedMs(state, clock)
                playing == state.loop.running /\ elapsed % CLIP_SLOT_MS < CLIP_DURATION_MS
                current == clipIdOf(elapsed \div CLIP_SLOT_MS)
            IN  \A clipId \in DOMAIN cache[1].votesByClip, address \in VoteAddresses, side \in Sides :
                    voted(cache[1], clipId, address) =>
                        \A r \in {castVote(cache, disk, clock,
                                           [clipId |-> clipId, side |-> side, address |-> address])} :
                            /\ r.ret = IF ~playing THEN Error("LobbyIdle")
                                       ELSE IF current # clipId THEN Error("TurnMismatch")
                                       ELSE Error("AlreadyVoted")
                            /\ votesUnchanged(cache[1], clipId, r)

\* An address voted A for the turn that is still playing; its second vote, for
\* B and in another spelling of the address, gets AlreadyVoted.
C7_Witness ==
    /\ cache # <<>>
    /\ \E clipId \in DOMAIN cache[1].votesByClip :
          /\ voted(cache[1], clipId, Addr1)
          /\ cache[1].votesByClip[clipId].votes[Addr1] = "A"
          /\ castVote(cache, disk, clock,
                      [clipId |-> clipId, side |-> "B", address |-> Addr1Upper]).ret
                = Error("AlreadyVoted")

\* Vote inputs for every turn up to the one after the current slot, for a
\* turn of another match, and with a side that is none
WideVoteInputsOf(c, now) ==
    [ clipId : {clipIdOf(i) : i \in 0..(slotIndexOf(c, now) + 1)} \cup {<<"OTHER-MATCH", 0>>},
      side : Sides \cup {"C"},
      address : VoteAddresses ]

historyIds(state) == [i \in DOMAIN state.epochHistory |-> state.epochHistory[i].epochId]

\* <<hi, hi - 1, ..., lo>>
descending(hi, lo) == [i \in 1..(hi - lo + 1) |-> hi - i + 1]

\* How many of the epochs lo..hi the side won
epochsWonBy(state, side, lo, hi) ==
    Cardinality({e \in lo..hi : state.epochAggregates[e].winner = side})

\* C9: when k >= 1 epoch windows have passed since the last catch-up (last
\* seen epoch N, current epoch N+k), one pass of the epoch lifecycle finalizes
\* exactly the epochs N..N+k-1, in ascending order and each once, adds one
\* history entry per epoch (the list keeping the 5 most recent), and
\* finalizing a finalized epoch again changes nothing.
C9_EpochSweep ==
    cache # <<>> =>
        \A k \in 1..MaxSweep :
            LET state == cache[1]
                now == clock + k * EPOCH_DURATION_MS
                N == state.lastEpochId
                current == epochIdFromMs(now)
            IN  \A r \in {syncEpochLifecycle(state, now)} :
                    /\ current >= N + k
                    /\ r.changed
                    /\ r.st.lastEpochId = current
                    /\ \A e \in N..(current - 1) :
                          LET old == ensureEpochAggregate(state, e).epochAggregates[e]
                          IN  /\ old.finalizedAt = Null
                              /\ r.st.epochAggregates[e] =
                                    [old EXCEPT !.finalizedAt = now,
                                                !.winner = tallyWinner(old.votesA, old.votesB)]
                              /\ finalizeEpochIfNeeded(r.st, e, now + 1)
                                    = [st |-> r.st, changed |-> FALSE]
                    /\ \A e \in DOMAIN state.epochAggregates \ (N..(current - 1)) :
                          r.st.epochAggregates[e] = state.epochAggregates[e]
                    /\ r.st.epochAggregates[current].finalizedAt = Null
                    /\ historyIds(r.st) =
                          Take(descending(current - 1, N) \o historyIds(state), EPOCH_HISTORY_LIMIT)
                    /\ \A i \in DOMAIN r.st.epochHistory :
                          i > current - N => r.st.epochHistory[i] = state.epochHistory[i - (current - N)]
                    /\ \A a \in AgentIds :
                          /\ r.st.agents[a].winCount =
                                state.agents[a].winCount + epochsWonBy(r.st, a, N, current - 1)
                          /\ r.st.agents[a].winCount + r.st.agents[a].lossCount =
                                state.agents[a].winCount + state.agents[a].lossCount
                                  + (current - N) - epochsWonBy(r.st, "TIE", N, current - 1)
                    /\ syncEpochLifecycle(r.st, now) = [st |-> r.st, changed |-> FALSE]

\* The last seen epoch N holds votes that make A win; a pass three windows
\* later appends N, N+1, N+2 and counts one epoch win for A, and a pass
\* MaxSweep windows later keeps the 5 most recent entries.
C9_Witness ==
    /\ cache # <<>>
    /\ cache[1].lastEpochId = epochIdFromMs(clock)
    /\ cache[1].epochAggregates[cache[1].lastEpochId].votesA > 0
    /\ cache[1].epochAggregates[cache[1].lastEpochId].votesB = 0
    /\ LET N == cache[1].lastEpochId
           three == syncEpochLifecycle(cache[1], clock + 3 * EPOCH_DURATION_MS).st
           many == syncEpochLifecycle(cache[1], clock + MaxSweep * EPOCH_DURATION_MS).st
       IN  /\ historyIds(three) = <<N + 2, N + 1, N>> \o historyIds(cache[1])
           /\ three.epochAggregates[N].winner = "A"
           /\ three.agents.A.winCount = cache[1].agents.A.winCount + 1
           /\ Len(many.epochHistory) = EPOCH_HISTORY_LIMIT
           /\ many.epochHistory[1].epochId = N + MaxSweep - 1

\* The finalized epochs of the cached lobby
finalizedOf(c) ==
    IF c = <<>> THEN {}
    ELSE {e \in DOMAIN c[1].epochAggregates : c[1].epochAggregates[e].finalizedAt # Null}

\* The call left every finalized aggregate of c as it was
keepsFinalized(c, r) ==
    \A e \in finalizedOf(c) :
        /\ r.cache # <<>>
        /\ e \in DOMAIN r.cache[1].epochAggregates
        /\ r.cache[1].epochAggregates[e] = c[1].epochAggregates[e]

\* C10: once an epoch aggregate is finalized, no vote, bet, claim or catch-up
\* changes its vote counts, stake totals, winner or finalized-at, whether the
\* call comes at once or after a catch-up.
C10_FinalizedImmutable ==
    /\ EveryNonReset(cache, disk, clock, LAMBDA r : keepsFinalized(cache, r))
    /\ \A s \in {getMatchSnapshot(cache, disk, clock, NoString)} :
          EveryNonReset(s.cache, s.disk, clock, LAMBDA r : keepsFinalized(s.cache, r))

\* A finalized epoch that holds stakes, and a bet that names it and is turned
\* away with EpochMismatch.
C10_Witness ==
    \E e \in finalizedOf(cache) :
        /\ cache[1].epochAggregates[e].totalBetAWei + cache[1].epochAggregates[e].totalBetBWei > 0
        /\ registerBet(cache, disk, clock,
                       [epochId |-> e, side |-> "A", amountWei |-> 1, address |-> Addr1]).ret
              = Error("EpochMismatch")

-----------------------------------------------------------------------------
(* Bankroll *)

\* Bankrolls an agent can hold when an epoch closes: the initial one, and the
\* low ones many lost epochs lead to (100 - 45 * 2.2 = 1, then 0)
BankrollSamples == {0, 1000, 2200, DEFAULT_BANKROLL}

otherAgent(a) == IF a = "A" THEN "B" ELSE "A"

\* The cached lobby with the two bankrolls set
withBankrolls(state, bA, bB) ==
    [state EXCEPT !.agents.A.bankroll = bA, !.agents.B.bankroll = bB]

\* C11: when an epoch is finalized with winner A or B the winner's bankroll
\* becomes previous + 3.5 and the loser's max(0, previous - 2.2); on a tie
\* both bankrolls stay; and the bankroll is never negative.
C11_BankrollDirection ==
    cache # <<>> =>
        /\ \A a \in AgentIds : cache[1].agents[a].bankroll >= 0
        /\ \A bA \in BankrollSamples, bB \in BankrollSamples :
              LET state == withBankrolls(cache[1], bA, bB)
                  e == state.lastEpochId
                  now == clock + EPOCH_DURATION_MS
              IN  \A r \in {finalizeEpochIfNeeded(state, e, now)} :
                      LET w == r.st.epochAggregates[e].winner
                      IN  r.changed =>
                            /\ w \in {"A", "B", "TIE"}
                            /\ w = "TIE" =>
                                  \A a \in AgentIds :
                                      r.st.agents[a].bankroll = state.agents[a].bankroll
                            /\ w \in AgentIds =>
                                  /\ r.st.agents[w].bankroll = state.agents[w].bankroll + 3500
                                  /\ r.st.agents[otherAgent(w)].bankroll =
                                        Max(0, state.agents[otherAgent(w)].bankroll - 2200)
                                  /\ r.st.agents[otherAgent(w)].bankroll >= 0

\* The open epoch holds a vote for B and none for A; closing it pays B 3.5,
\* costs A 2.2, and an A that holds 1 ends at 0.
C11_Witness ==
    /\ cache # <<>>
    /\ cache[1].lastEpochId \in DOMAIN cache[1].epochAggregates
    /\ cache[1].epochAggregates[cache[1].lastEpochId].finalizedAt = Null
    /\ cache[1].epochAggregates[cache[1].lastEpochId].votesB > 0
    /\ cache[1].epochAggregates[cache[1].lastEpochId].votesA = 0
    /\ LET e == cache[1].lastEpochId
           now == clock + EPOCH_DURATION_MS
           paid == finalizeEpochIfNeeded(cache[1], e, now).st
           floored == finalizeEpochIfNeeded(withBankrolls(cache[1], 1000, 1000), e, now).st
       IN  /\ paid.agents.B.bankroll = DEFAULT_BANKROLL + 3500
           /\ paid.agents.A.bankroll = DEFAULT_BANKROLL - 2200
           /\ floored.agents.A.bankroll = 0
           /\ floored.agents.B.bankroll = 4500

-----------------------------------------------------------------------------
(* Claims on settled epochs *)

ClaimViewers == BetAddresses \cup {Addr1Upper, AddrShort, NoString}

\* Every epoch of the list is one the viewer may claim in the state, and the
\* list runs from the most recent epoch down
claimableOnly(state, now, viewer, ids) ==
    LET normalized == normalizeAddress(viewer)
    IN  /\ \A i \in DOMAIN ids :
              LET e == ids[i]
              IN  /\ normalized # NoString
                  /\ e < epochIdFromMs(now)
                  /\ e \in DOMAIN state.epochAggregates
                  /\ state.epochAggregates[e].finalizedAt # Null
                  /\ state.epochAggregates[e].winner \in Sides
                  /\ e \in DOMAIN state.userBetsByEpoch
                  /\ normalized \in DOMAIN state.userBetsByEpoch[e]
                  /\ ~state.userBetsByEpoch[e][normalized].claimed
                  /\ IF state.epochAggregates[e].winner = "A"
                     THEN state.userBetsByEpoch[e][normalized].amountAWei > 0
                     ELSE state.userBetsByEpoch[e][normalized].amountBWei > 0
        /\ \A i \in DOMAIN ids, j \in DOMAIN ids : i < j => ids[i] > ids[j]

\* The snapshot of the viewer at time now lists only what the viewer may claim
snapshotClaimableOnly(c, d, now, viewer) ==
    \A r \in {getMatchSnapshot(c, d, now, viewer)} :
        claimableOnly(r.cache[1], now, viewer, r.ret.claimableEpochIds)

\* The moment the epoch open at time now closes, when that is within ten slots
\* (the turns of a whole epoch are not played through here)
closeTimes(now) ==
    IF epochEndMs(epochIdFromMs(now)) - now <= 10 * CLIP_SLOT_MS
    THEN {epochEndMs(epochIdFromMs(now))}
    ELSE {}

\* C12: the claimable list of an address holds an epoch only if the epoch is
\* before the current one and finalized with winner A or B, the address's bet
\* in it is not marked claimed and has a nonzero stake on the winning side;
\* the list is sorted most recent first.  Checked on every reachable lobby
\* now and when the open epoch has closed, and for every bettor after one
\* more bet, the close of its epoch, and the marking of the claim.
C12_ClaimableOnlyWinningUnclaimed ==
    /\ \A now \in {clock} \cup closeTimes(clock), viewer \in ClaimViewers :
          snapshotClaimableOnly(cache, disk, now, viewer)
    /\ \A side \in Sides, address \in BetAddresses, later \in closeTimes(clock) :
          LET e == epochIdFromMs(clock)
          IN  \A b \in {registerBet(cache, disk, clock,
                           [epochId |-> e, side |-> side, amountWei |-> 1, address |-> address])} :
                  /\ b.ret.kind = "bet"
                  /\ \A s \in {getMatchSnapshot(b.cache, b.disk, later, address)} :
                        /\ claimableOnly(s.cache[1], later, address, s.ret.claimableEpochIds)
                        /\ \A m \in {markClaimed(s.cache, s.disk, later,
                                        [epochId |-> e, address |-> address])} :
                              snapshotClaimableOnly(m.cache, m.disk, later, address)

\* The open epoch holds a vote for A only.  Addr1 stakes on A: once the epoch
\* has closed the list of Addr1 is that epoch, the list of Addr2 (no bet) is
\* empty, and after Addr1's claim is marked the list of Addr1 is empty.
\* Addr1 staking on B instead gets an empty list.
C12_Witness ==
    /\ cache # <<>>
    /\ epochIdFromMs(clock) \in DOMAIN cache[1].epochAggregates
    /\ cache[1].epochAggregates[epochIdFromMs(clock)].votesA > 0
    /\ cache[1].epochAggregates[epochIdFromMs(clock)].votesB = 0
    /\ LET e == epochIdFromMs(clock)
           later == epochEndMs(e)
           onA == registerBet(cache, disk, clock,
                              [epochId |-> e, side |-> "A", amountWei |-> 1, address |-> Addr1])
           onB == registerBet(cache, disk, clock,
                              [epochId |-> e, side |-> "B", amountWei |-> 1, address |-> Addr1])
           closed == getMatchSnapshot(onA.cache, onA.disk, later, Addr1)
           marked == markClaimed(closed.cache, closed.disk, later,
                                 [epochId |-> e, address |-> Addr1])
       IN  /\ closed.ret.claimableEpochIds = <<e>>
           /\ getMatchSnapshot(onA.cache, onA.disk, later, Addr2).ret.claimableEpochIds = <<>>
           /\ getMatchSnapshot(marked.cache, marked.disk, later, Addr1).ret.claimableEpochIds = <<>>
           /\ getMatchSnapshot(onB.cache, onB.disk, later, Addr1).ret.claimableEpochIds = <<>>

\* The bets marked claimed are bets of a finalized epoch won by A or B, with a
\* nonzero stake on the winner
claimedOnlyWinners(state) ==
    \A e \in DOMAIN state.userBetsByEpoch :
        \A address \in DOMAIN state.userBetsByEpoch[e] :
            state.userBetsByEpoch[e][address].claimed =>
                /\ e \in DOMAIN state.epochAggregates
                /\ state.epochAggregates[e].finalizedAt # Null
                /\ state.epochAggregates[e].winner \in Sides
                /\ IF state.epochAggregates[e].winner = "A"
                   THEN state.userBetsByEpoch[e][address].amountAWei > 0
                   ELSE state.userBetsByEpoch[e][address].amountBWei > 0

\* The address has a bet in the epoch, the epoch is finalized with winner A
\* or B, and the bet holds a stake on the winner
claimEligible(state, input) ==
    LET address == normalizeAddress(input.address)
        e == input.epochId
    IN  /\ address # NoString
        /\ e \in DOMAIN state.userBetsByEpoch
        /\ address \in DOMAIN state.userBetsByEpoch[e]
        /\ e \in DOMAIN state.epochAggregates
        /\ state.epochAggregates[e].finalizedAt # Null
        /\ state.epochAggregates[e].winner \in Sides
        /\ IF state.epochAggregates[e].winner = "A"
           THEN state.userBetsByEpoch[e][address].amountAWei > 0
           ELSE state.userBetsByEpoch[e][address].amountBWei > 0

ClaimAddresses == BetAddresses \cup {Addr1Upper, AddrShort}

\* Every markClaimed on the loaded store (c, d) sets the flag of an eligible
\* bet and nothing else, and otherwise leaves cache and durable record as
\* they are and writes nothing; the flags then still belong to winners
claimsGated(c, d, now) ==
    \A e \in BetEpochIdsOf(now), address \in ClaimAddresses :
        LET input == [epochId |-> e, address |-> address]
        IN  \A m \in {markClaimed(c, d, now, input)} :
                /\ claimedOnlyWinners(m.cache[1])
                /\ IF claimEligible(c[1], input)
                   THEN /\ m.wrote
                        /\ m.disk = m.cache
                        /\ [m.cache[1] EXCEPT !.updatedAt = c[1].updatedAt] =
                              [c[1] EXCEPT
                                  !.userBetsByEpoch[e][normalizeAddress(address)].claimed = TRUE]
                   ELSE /\ ~m.wrote
                        /\ m.cache = c
                        /\ m.disk = d

-----------------------------------------------------------------------------
(* Rejected bets *)

\* Amounts as the client sends them: -1 stands for the string "-1", which is
\* not a run of digits
WideBetAmounts == {-1, 0, 1}
WideBetInputsOf(now) ==
    [ epochId : {epochIdFromMs(now), Max(0, epochIdFromMs(now) - 1), epochIdFromMs(now) + 1},
      side : Sides,
      amountWei : WideBetAmounts,
      address : {Addr1, Addr1Upper, AddrShort} ]

\* The stake totals of the epochs and the bets of the addresses, flags included
stakeTotalsOf(c, e) ==
    IF c # <<>> /\ e \in DOMAIN c[1].epochAggregates
    THEN <<c[1].epochAggregates[e].totalBetAWei, c[1].epochAggregates[e].totalBetBWei>>
    ELSE <<0, 0>>
betsOf(c) == IF c = <<>> THEN EmptyMap ELSE c[1].userBetsByEpoch

stakesUnchanged(c, r) ==
    /\ betsOf(r.cache) = betsOf(c)
    /\ r.cache # <<>> =>
          \A e \in DOMAIN r.cache[1].epochAggregates :
              stakeTotalsOf(r.cache, e) = stakeTotalsOf(c, e)

\* C14: a bet with a malformed address fails with InvalidAddress, one with a
\* non-numeric or non-positive amount with InvalidAmount, one naming another
\* epoch than the open one with EpochMismatch; a failing bet changes no stake
\* total, no stake of an address and no claimed flag.
C14_RejectedBetChangesNoStake ==
    \A input \in WideBetInputsOf(clock) :
        \A r \in {registerBet(cache, disk, clock, input)} :
            /\ normalizeAddress(input.address) = NoString => r.ret = Error("InvalidAddress")
            /\ (normalizeAddress(input.address) # NoString /\ input.amountWei <= 0)
                  => r.ret = Error("InvalidAmount")
            /\ (normalizeAddress(input.address) # NoString /\ input.amountWei > 0
                  /\ input.epochId # epochIdFromMs(clock))
                  => r.ret = Error("EpochMismatch")
            /\ (normalizeAddress(input.address) # NoString /\ input.amountWei > 0
                  /\ input.epochId = epochIdFromMs(clock))
                  => r.ret.kind = "bet"
            /\ r.ret.kind = "error" => stakesUnchanged(cache, r)

\* The open epoch holds the stake of Addr1; a bet naming the next epoch, one
\* with amount 0, one with amount "-1" and one from a malformed address are
\* turned away and the stake stays.
C14_Witness ==
    /\ cache # <<>>
    /\ epochIdFromMs(clock) \in DOMAIN cache[1].userBetsByEpoch
    /\ Addr1 \in DOMAIN cache[1].userBetsByEpoch[epochIdFromMs(clock)]
    /\ LET e == epochIdFromMs(clock)
           bet(epochId, amount, address) ==
               registerBet(cache, disk, clock,
                           [epochId |-> epochId, side |-> "A", amountWei |-> amount,
                            address |-> address])
       IN  /\ bet(e + 1, 1, Addr1).ret = Error("EpochMismatch")
           /\ bet(e, 0, Addr1).ret = Error("InvalidAmount")
           /\ bet(e, -1, Addr1).ret = Error("InvalidAmount")
           /\ bet(e, 1, AddrShort).ret = Error("InvalidAddress")
           /\ bet(e + 1, 1, Addr1).cache[1].userBetsByEpoch = cache[1].userBetsByEpoch
           /\ stakeTotalsOf(bet(e + 1, 1, Addr1).cache, e) = stakeTotalsOf(cache, e)
           /\ stakeTotalsOf(cache, e)[1] + stakeTotalsOf(cache, e)[2] > 0

-----------------------------------------------------------------------------
(* Pausing *)

\* Moments of a later call: at once, and after the sessions have gone stale
PauseDelays == {0, 10000, LISTENER_TTL_MS + 5000}

snappedElapsedOf(c, now) ==
    ((c[1].loop.runStartElapsedMs + (now - c[1].loop.runStartedAt)) \div CLIP_SLOT_MS)
        * CLIP_SLOT_MS

pausedShape(c) ==
    (c # <<>> /\ ~c[1].loop.running) =>
        /\ c[1].loop.elapsedMs % CLIP_SLOT_MS = 0
        /\ c[1].loop.elapsedMs = c[1].loop.runStartElapsedMs
        /\ c[1].loop.runStartedAt = Null

pauseSnaps(c, now, r) ==
    /\ pausedShape(r.cache)
    /\ (running(c) /\ ~running(r.cache)) =>
          r.cache[1].loop.elapsedMs = snappedElapsedOf(c, now)

\* C16: when a call of the engine takes the loop from Running to Paused, the
\* accumulated elapsed time becomes floor((elapsed at segment start + now -
\* segment start) / slot) * slot; whenever the loop is Paused, the elapsed
\* time is a whole multiple of the slot, equals the stored segment-start
\* elapsed value, and the segment start is unset.  (reset and start replace
\* the lobby by a new one; they are the subject of C20.)
C16_PauseSnapsToSlot ==
    /\ pausedShape(cache)
    /\ \A delay \in PauseDelays :
          EveryNonReset(cache, disk, clock + delay,
                        LAMBDA r : pauseSnaps(cache, clock + delay, r))

\* A loop that has run for more than one slot and not a whole number of them
\* is paused by the next poll, the sessions having gone stale, and by a leave.
C16_Witness ==
    /\ running(cache)
    /\ \E delay \in PauseDelays :
          /\ getActiveElapsedMs(cache[1], clock + delay) > CLIP_SLOT_MS
          /\ getActiveElapsedMs(cache[1], clock + delay) % CLIP_SLOT_MS # 0
          /\ \A r \in {getMatchSnapshot(cache, disk, clock + delay, NoString)} :
                /\ ~running(r.cache)
                /\ r.cache[1].loop.elapsedMs = snappedElapsedOf(cache, clock + delay)
                /\ r.cache[1].loop.elapsedMs >= CLIP_SLOT_MS
    /\ \E raw \in SessionInputs :
          \A r \in {leavePresence(cache, disk, clock, raw)} :
              ~running(r.cache) /\ r.cache[1].loop.elapsedMs = snappedElapsedOf(cache, clock)

-----------------------------------------------------------------------------
(* Clip history *)

\* Moments of a later call: at once, after the sessions have gone stale, and
\* after more turns than the history keeps
HistoryDelays == {0, LISTENER_TTL_MS + 5000, (HISTORY_LIMIT + 2) * CLIP_SLOT_MS}

historyShape(c) ==
    c # <<>> =>
        /\ Len(c[1].clipHistory) = Min(c[1].loop.processedClipCount, HISTORY_LIMIT)
        /\ \A k \in 1..Len(c[1].clipHistory) :
              /\ c[1].clipHistory[k].clipIndex = c[1].loop.processedClipCount - k
              /\ c[1].clipHistory[k].agentId =
                    (IF c[1].clipHistory[k].clipIndex % 2 = 0 THEN "A" ELSE "B")
        /\ c[1].agents["A"].clipsPlayed + c[1].agents["B"].clipsPlayed
              = c[1].loop.processedClipCount

\* C17: the clip history holds the most recent min(materialized count, 10)
\* turns, most recent first, with the indices count-1, count-2, ... in a row;
\* the turn with index i is acted by A when i is even and by B when i is odd;
\* clipsPlayed(A) + clipsPlayed(B) is the materialized count.
C17_ClipHistoryShape ==
    /\ historyShape(cache)
    /\ \A delay \in HistoryDelays :
          /\ EverySnapshot(cache, disk, clock + delay, LAMBDA r : historyShape(r.cache))
          /\ EveryJoin(cache, disk, clock + delay, LAMBDA r : historyShape(r.cache))
          /\ EveryLeave(cache, disk, clock + delay, LAMBDA r : historyShape(r.cache))

\* A loop with turns behind it is polled after more than ten further turns:
\* the history is full, its head is the last turn, and both sides have played.
C17_Witness ==
    /\ running(cache)
    /\ cache[1].loop.processedClipCount >= 1
    /\ \A r \in {getMatchSnapshot(cache, disk, clock + (HISTORY_LIMIT + 2) * CLIP_SLOT_MS, NoString)} :
          /\ r.cache[1].loop.processedClipCount > HISTORY_LIMIT + 2
          /\ Len(r.cache[1].clipHistory) = HISTORY_LIMIT
          /\ r.cache[1].clipHistory[1].clipIndex = r.cache[1].loop.processedClipCount - 1
          /\ r.cache[1].clipHistory[HISTORY_LIMIT].clipIndex
                = r.cache[1].loop.processedClipCount - HISTORY_LIMIT
          /\ r.cache[1].agents["A"].clipsPlayed >= HISTORY_LIMIT \div 2
          /\ r.cache[1].agents["B"].clipsPlayed >= HISTORY_LIMIT \div 2

-----------------------------------------------------------------------------
(* Reset and start *)

listenersOf(c) == IF c = <<>> THEN EmptyMap ELSE c[1].listeners

backToDefaults(state, now) ==
    /\ state.loop = defaultLoopState
    /\ ~state.loop.running
    /\ state.loop.elapsedMs = 0
    /\ state.loop.startedAt = Null
    /\ state.loop.processedClipCount = 0
    /\ state.clipHistory = <<>>
    /\ state.epochHistory = <<>>
    /\ state.votesByClip = EmptyMap
    /\ state.userBetsByEpoch = EmptyMap
    /\ DOMAIN state.epochAggregates = {epochIdFromMs(now)}
    /\ state.epochAggregates[epochIdFromMs(now)] = emptyEpochAggregate(epochIdFromMs(now))
    /\ state.epochAggregates[epochIdFromMs(now)].finalizedAt = Null
    /\ state.lastEpochId = epochIdFromMs(now)
    /\ state.agents = makeInitialAgents

resetsToDefaults(c, d, now) ==
    /\ \A r \in {resetMatch(c, d, now)} :
          /\ r.cache # <<>> /\ backToDefaults(r.cache[1], now)
          /\ r.cache[1].listeners = EmptyMap
          /\ r.disk = r.cache
    /\ \A r \in {startMatch(c, d, now)} :
          /\ r.cache # <<>> /\ backToDefaults(r.cache[1], now)
          /\ r.cache[1].listeners = listenersOf(c)
          /\ r.disk = r.cache

\* C20: reset and start leave the lobby at its defaults: loop paused, elapsed
\* time 0, loop start unset, materialized count 0, empty clip and epoch
\* histories, empty vote and bet ledgers, one unfinalized aggregate, that of
\* the current epoch, last epoch id the current epoch, the initial agents.
\* reset also empties the presence map; start keeps it as it was.
C20_ResetStartDefaults ==
    \A delay \in HistoryDelays : resetsToDefaults(cache, disk, clock + delay)

\* A lobby with a live session, a materialized turn and a bet, created in the
\* epoch before the current one: reset empties the presence map, start keeps
\* the session, both bring the rest back to the defaults.
C20_Witness ==
    /\ present(cache)
    /\ cache[1].loop.processedClipCount >= 1
    /\ cache[1].clipHistory # <<>>
    /\ cache[1].userBetsByEpoch # EmptyMap
    /\ cache[1].agents # makeInitialAgents
    /\ epochIdFromMs(clock) > epochIdFromMs(cache[1].createdAt)
    /\ resetMatch(cache, disk, clock).cache[1].listeners = EmptyMap
    /\ startMatch(cache, disk, clock).cache[1].listeners = cache[1].listeners
    /\ backToDefaults(resetMatch(cache, disk, clock).cache[1], clock)
    /\ backToDefaults(startMatch(cache, disk, clock).cache[1], clock)

-----------------------------------------------------------------------------
(* Process restarts and damaged records: the cache lives in a global of the *)
(* process (matchStore.ts:118-129) and is lost with it; the durable record  *)
(* is a file in the temporary directory (131-133) that outlives the process *)
(* and that a write cut short or another writer can leave damaged.          *)

DamageFields ==
    {"matchId", "listeners", "loop", "agents", "clipHistory", "epochAggregates",
     "userBetsByEpoch", "lastEpochId"}

without(raw, field) == [f \in DOMAIN raw \ {field} |-> raw[f]]

damaged(raw) == DOMAIN raw # DOMAIN defaultLobbyState(0)

Restart ==
    /\ cache # <<>>
    /\ cache' = <<>>
    /\ UNCHANGED <<clock, ticks, calls, disk, contPresence, shadow, runtimeAgent, pass, addressed, lobbies, heap, requests>>

Damage ==
    /\ cache = <<>>
    /\ disk # <<>>
    /\ ~damaged(disk[1])
    /\ \E raw \in {Unparseable, NotAnObject} \cup {without(disk[1], f) : f \in DamageFields} :
          disk' = <<raw>>
    /\ UNCHANGED <<clock, ticks, calls, cache, contPresence, shadow, runtimeAgent, pass, addressed, lobbies, heap, requests>>

NextRestart ==
    \/ Next
    \/ Restart
    \/ Damage

SpecRestart == Init /\ [][NextRestart]_vars

-----------------------------------------------------------------------------
(* Loading *)

\* C18 as stated: after load returns, through the cache, through the durable
\* record or through neither, the state it returns is the cached state and the
\* durable record is equal to it.
C18_LoadedStateIsDurable ==
    \A r \in {loadLobbyState(cache, disk, clock)} : r.disk = <<r.st>>

\* The record a load keeps: the fields that are there, read back
keptFields(raw, st) ==
    /\ Has(raw, "matchId") => st.matchId = raw.matchId
    /\ Has(raw, "listeners") => st.listeners = raw.listeners
    /\ Has(raw, "loop") => st.loop = raw.loop
    /\ Has(raw, "agents") => st.agents = raw.agents
    /\ Has(raw, "clipHistory") => st.clipHistory = raw.clipHistory
    /\ Has(raw, "votesByClip") => st.votesByClip = raw.votesByClip
    /\ Has(raw, "userBetsByEpoch") => st.userBetsByEpoch = raw.userBetsByEpoch
    /\ Has(raw, "epochHistory") => st.epochHistory = raw.epochHistory
    /\ Has(raw, "lastEpochId") => st.lastEpochId = raw.lastEpochId
    /\ Has(raw, "createdAt") => st.createdAt = raw.createdAt
    /\ Has(raw, "epochAggregates") =>
          \A e \in DOMAIN raw.epochAggregates :
              e \in DOMAIN st.epochAggregates /\ st.epochAggregates[e] = raw.epochAggregates[e]

\* The fields a load makes up: those that are not there take their defaults
defaultedFields(raw, st, now) ==
    /\ ~Has(raw, "matchId") => st.matchId = defaultLobbyState(now).matchId
    /\ ~Has(raw, "listeners") => st.listeners = EmptyMap
    /\ ~Has(raw, "loop") => st.loop = defaultLoopState
    /\ ~Has(raw, "agents") => st.agents = makeInitialAgents
    /\ ~Has(raw, "clipHistory") => st.clipHistory = <<>>
    /\ ~Has(raw, "userBetsByEpoch") => st.userBetsByEpoch = EmptyMap
    /\ ~Has(raw, "lastEpochId") => st.lastEpochId = epochIdFromMs(now)
    /\ ~Has(raw, "epochAggregates") =>
          st.epochAggregates = defaultLobbyState(now).epochAggregates
    /\ epochIdFromMs(now) \in DOMAIN st.epochAggregates

loadOfDamaged(c, d, now) ==
    (c = <<>> /\ d # <<>> /\ damaged(d[1])) =>
        \A r \in {loadLobbyState(c, d, now)} :
            IF d[1] = Unparseable
            THEN r.st = writeLobbyState(defaultLobbyState(now), now)
                 /\ r.disk = <<r.st>> /\ r.wrote
            ELSE IF d[1] = NotAnObject
            THEN r.st = defaultLobbyState(now) /\ r.disk = d /\ ~r.wrote
            ELSE /\ keptFields(d[1], r.st)
                 /\ defaultedFields(d[1], r.st, now)
                 /\ DOMAIN r.st = DOMAIN defaultLobbyState(now)
                 /\ r.disk = d /\ ~r.wrote

-----------------------------------------------------------------------------
(* The agent mutation engine on all numeric fields of an agent, in every    *)
(* lobby, matchStore.ts:225-274 and 962-1145                                *)

MaxOutcomes == 2

Strategies == {"AGGRESSIVE", "ADAPTIVE", "SAFE"}
Styles == {"HARD", "SOFT"}

\* In thousandths; bpmBias in beats per minute
LobbyParameters(lobbyId) ==
    IF lobbyId = "drift-hard"
    THEN [mutationSensitivity |-> 620, intensityMin |-> 620, intensityMax |-> 980,
          bpmBias |-> 16, chaosRate |-> 120, styleBias |-> 750,
          densityBias |-> 200, fxBias |-> -100]
    ELSE IF lobbyId = "soft-night"
    THEN [mutationSensitivity |-> 380, intensityMin |-> 280, intensityMax |-> 720,
          bpmBias |-> -10, chaosRate |-> 80, styleBias |-> -720,
          densityBias |-> -160, fxBias |-> 280]
    ELSE [mutationSensitivity |-> 860, intensityMin |-> 350, intensityMax |-> 950,
          bpmBias |-> 4, chaosRate |-> 450, styleBias |-> 0,
          densityBias |-> 300, fxBias |-> 180]

\* Values of rand(), in thousandths; every product the code forms with them
\* is a whole number of thousandths
Rands == {0, 900}
\* Lengths of runs of one outcome: of turns, of epochs
TurnBursts == {1, 12}
EpochBursts == {1, 46}

createRuntimeAgentFull(agentId, lobbyId, params) ==
    LET lobby == LobbyParameters(lobbyId)
        rangeMid == (lobby.intensityMin + lobby.intensityMax) \div 2
        stylePush == IF params.baseStyle = "HARD" THEN 60 ELSE -50
        strategyPush ==
            IF params.strategy = "AGGRESSIVE" THEN 80
            ELSE IF params.strategy = "SAFE" THEN -40 ELSE 10
        riskBase ==
            IF params.strategy = "AGGRESSIVE" THEN 620
            ELSE IF params.strategy = "SAFE" THEN 340 ELSE 500
    IN  [ id |-> agentId,
          strategy |-> params.strategy,
          confidence |-> 500,
          intensityBase |->
              clamp(rangeMid + stylePush + strategyPush, lobby.intensityMin, lobby.intensityMax),
          volatility |->
              IF params.strategy = "SAFE" THEN 280
              ELSE IF params.strategy = "ADAPTIVE" THEN 450 ELSE 550,
          tempoPressure |-> IF params.strategy = "AGGRESSIVE" THEN 620 ELSE 500,
          mutationSensitivity |->
              clamp(lobby.mutationSensitivity
                      + (IF params.strategy = "ADAPTIVE" THEN 80 ELSE 0),
                    100, 1000),
          bankroll |-> DEFAULT_BANKROLL,
          riskLevel |-> clamp(riskBase, 80, 990),
          winCount |-> 0,
          lossCount |-> 0,
          wins |-> 0,
          losses |-> 0 ]

\* (rand() - 0.5) * span
jitter(draw, span) == ((draw - 500) * span) \div 1000

\* bias: the three draws the chaos-lab branch takes, in order
applyLobbyBiasToAgentFull(lobbyId, a, bias) ==
    LET lobby == LobbyParameters(lobbyId)
    IN  IF lobbyId = "chaos-lab"
        THEN [a EXCEPT
                 !.volatility = clamp(@ + jitter(bias[1], 120), 120, 990),
                 !.mutationSensitivity = clamp(@ + jitter(bias[2], 100), 100, 1000),
                 !.riskLevel = clamp(@ + jitter(bias[3], 120), 80, 990)]
        ELSE IF lobbyId = "drift-hard"
        THEN [a EXCEPT
                 !.intensityBase =
                     clamp(Max(@, lobby.intensityMin + 40), lobby.intensityMin, lobby.intensityMax),
                 !.riskLevel = clamp(Max(@, 500), 80, 990)]
        ELSE [a EXCEPT
                 !.intensityBase =
                     clamp(Min(@, lobby.intensityMax - 40), lobby.intensityMin, lobby.intensityMax),
                 !.riskLevel = clamp(Min(@, 600), 80, 990)]

\* draws: the two draws the TIE branch takes, in order
\* Variant: a lost turn takes its toll on confidence without the clamp
applyOutcomeMutationFull_lossUnclamped(lobbyId, a, outcome, draws, bias) ==
    LET lo == LobbyParameters(lobbyId).intensityMin
        hi == LobbyParameters(lobbyId).intensityMax
        rangeMid == (lo + hi) \div 2
    IN  IF outcome = "TIE"
        THEN applyLobbyBiasToAgentFull(lobbyId,
                [a EXCEPT !.confidence = clamp(@ + 5, 100, 990),
                          !.volatility = clamp(@ + jitter(draws[1], 50), 80, 980),
                          !.riskLevel = clamp(@ + jitter(draws[2], 30), 80, 990)],
                bias)
        ELSE IF outcome = a.id
        THEN applyLobbyBiasToAgentFull(lobbyId,
                [a EXCEPT !.wins = @ + 1,
                          !.confidence = clamp(@ + 45, 100, 990),
                          !.riskLevel = clamp(@ + 15, 80, 990),
                          !.intensityBase = clamp(@ + 15, lo, hi),
                          !.tempoPressure = clamp(@ + 30, 100, 990)],
                bias)
        ELSE IF a.strategy = "ADAPTIVE"
        THEN applyLobbyBiasToAgentFull(lobbyId,
                [a EXCEPT !.losses = @ + 1,
                          !.confidence = @ - 55,
                          !.riskLevel = clamp(@ + 20, 80, 990),
                          !.tempoPressure = clamp(@ + 40, 100, 990),
                          !.mutationSensitivity = clamp(@ + 40, 80, 1000)],
                bias)
        ELSE IF a.strategy = "AGGRESSIVE"
        THEN applyLobbyBiasToAgentFull(lobbyId,
                [a EXCEPT !.losses = @ + 1,
                          !.confidence = @ - 55,
                          !.riskLevel = clamp(@ + 60, 80, 990),
                          !.intensityBase = clamp(@ + 70, lo, hi),
                          !.mutationSensitivity = clamp(@ + 60, 80, 1000),
                          !.volatility = clamp(@ + 50, 80, 990),
                          !.tempoPressure = clamp(@ + 80, 100, 990)],
                bias)
        ELSE applyLobbyBiasToAgentFull(lobbyId,
                [a EXCEPT !.losses = @ + 1,
                          !.confidence = @ - 55,
                          !.riskLevel = clamp(@ - 50, 80, 990),
                          !.volatility = clamp(@ - 80, 80, 900),
                          !.intensityBase = clamp(@ + ((rangeMid - @) * 3) \div 10, lo, hi)],
                bias)
applyOutcomeMutationFull(lobbyId, a, outcome, draws, bias) ==
    LET lo == LobbyParameters(lobbyId).intensityMin
        hi == LobbyParameters(lobbyId).intensityMax
        rangeMid == (lo + hi) \div 2
    IN  IF outcome = "TIE"
        THEN applyLobbyBiasToAgentFull(lobbyId,
                [a EXCEPT !.confidence = clamp(@ + 5, 100, 990),
                          !.volatility = clamp(@ + jitter(draws[1], 50), 80, 980),
                          !.riskLevel = clamp(@ + jitter(draws[2], 30), 80, 990)],
                bias)
        ELSE IF outcome = a.id
        THEN applyLobbyBiasToAgentFull(lobbyId,
                [a EXCEPT !.wins = @ + 1,
                          !.confidence = clamp(@ + 45, 100, 990),
                          !.riskLevel = clamp(@ + 15, 80, 990),
                          !.intensityBase = clamp(@ + 15, lo, hi),
                          !.tempoPressure = clamp(@ + 30, 100, 990)],
                bias)
        ELSE IF a.strategy = "ADAPTIVE"
        THEN applyLobbyBiasToAgentFull(lobbyId,
                [a EXCEPT !.losses = @ + 1,
                          !.confidence = clamp(@ - 55, 100, 980),
                          !.riskLevel = clamp(@ + 20, 80, 990),
                          !.tempoPressure = clamp(@ + 40, 100, 990),
                          !.mutationSensitivity = clamp(@ + 40, 80, 1000)],
                bias)
        ELSE IF a.strategy = "AGGRESSIVE"
        THEN applyLobbyBiasToAgentFull(lobbyId,
                [a EXCEPT !.losses = @ + 1,
                          !.confidence = clamp(@ - 55, 100, 980),
                          !.riskLevel = clamp(@ + 60, 80, 990),
                          !.intensityBase = clamp(@ + 70, lo, hi),
                          !.mutationSensitivity = clamp(@ + 60, 80, 1000),
                          !.volatility = clamp(@ + 50, 80, 990),
                          !.tempoPressure = clamp(@ + 80, 100, 990)],
                bias)
        ELSE applyLobbyBiasToAgentFull(lobbyId,
                [a EXCEPT !.losses = @ + 1,
                          !.confidence = clamp(@ - 55, 100, 980),
                          !.riskLevel = clamp(@ - 50, 80, 990),
                          !.volatility = clamp(@ - 80, 80, 900),
                          !.intensityBase = clamp(@ + ((rangeMid - @) * 3) \div 10, lo, hi)],
                bias)

applyEpochBankrollMutationFull(lobbyId, a, winner, draw) ==
    LET lo == LobbyParameters(lobbyId).intensityMin
        hi == LobbyParameters(lobbyId).intensityMax
    IN  IF winner = "TIE"
        THEN [a EXCEPT !.confidence = clamp(@ + 5, 100, 990),
                       !.riskLevel = clamp(@ + jitter(draw, 30), 80, 990)]
        ELSE IF winner = a.id
        THEN [a EXCEPT !.bankroll = round3(@ + EPOCH_REWARD_FACTOR),
                       !.winCount = @ + 1,
                       !.confidence = clamp(@ + 30, 100, 990),
                       !.riskLevel = clamp(@ + 30, 80, 990),
                       !.intensityBase = clamp(@ + 15, lo, hi)]
        ELSE IF a.strategy = "AGGRESSIVE"
        THEN [a EXCEPT !.bankroll = round3(Max(0, @ - EPOCH_PENALTY_FACTOR)),
                       !.lossCount = @ + 1,
                       !.confidence = clamp(@ - 30, 100, 990),
                       !.riskLevel = clamp(@ + 80, 80, 990),
                       !.mutationSensitivity = clamp(@ + 50, 80, 1000),
                       !.tempoPressure = clamp(@ + 30, 100, 990)]
        ELSE IF a.strategy = "SAFE"
        THEN [a EXCEPT !.bankroll = round3(Max(0, @ - EPOCH_PENALTY_FACTOR)),
                       !.lossCount = @ + 1,
                       !.confidence = clamp(@ - 30, 100, 990),
                       !.riskLevel = clamp(@ - 70, 80, 990),
                       !.volatility = clamp(@ - 50, 80, 900)]
        ELSE [a EXCEPT !.bankroll = round3(Max(0, @ - EPOCH_PENALTY_FACTOR)),
                       !.lossCount = @ + 1,
                       !.confidence = clamp(@ - 30, 100, 990),
                       !.riskLevel = clamp(@ + 20, 80, 990)]

\* n turns in a row with the same outcome and the same draws; the n
\* applications are composed by halves to keep the evaluation depth logarithmic
RECURSIVE turnOutcomes(_, _, _, _, _, _)
turnOutcomes(lobbyId, a, outcome, draws, bias, n) ==
    IF n <= 0 THEN a
    ELSE IF n = 1 THEN applyOutcomeMutationFull(lobbyId, a, outcome, draws, bias)
    ELSE CHOOSE result \in
             {turnOutcomes(lobbyId, half, outcome, draws, bias, n - n \div 2) :
                 half \in {turnOutcomes(lobbyId, a, outcome, draws, bias, n \div 2)}} : TRUE

\* n epochs in a row with the same winner and the same draw
RECURSIVE epochOutcomes(_, _, _, _, _)
epochOutcomes(lobbyId, a, winner, draw, n) ==
    IF n <= 0 THEN a
    ELSE IF n = 1 THEN applyEpochBankrollMutationFull(lobbyId, a, winner, draw)
    ELSE CHOOSE result \in
             {epochOutcomes(lobbyId, half, winner, draw, n - n \div 2) :
                 half \in {epochOutcomes(lobbyId, a, winner, draw, n \div 2)}} : TRUE

\* The draws a lobby bias takes: three in chaos-lab, none that reaches a
\* numeric field elsewhere
BiasDraws(lobbyId) ==
    IF lobbyId = "chaos-lab" THEN Rands \X Rands \X Rands ELSE {<<0, 0, 0>>}

InitAgent ==
    /\ clock = T0
    /\ ticks = 0
    /\ calls = 0
    /\ cache = <<>>
    /\ disk = <<>>
    /\ contPresence = TRUE
    /\ shadow = <<>>
    /\ pass = <<>>
    /\ addressed = "drift-hard"
    /\ lobbies = EmptyStore
    /\ heap = EmptyHeap
    /\ requests = <<>>
    /\ \E lobbyId \in LobbyIds, agentId \in AgentIds, strategy \in Strategies, baseStyle \in Styles :
          runtimeAgent =
              << [ lobbyId |-> lobbyId,
                   agent |-> createRuntimeAgentFull(agentId, lobbyId,
                                 [baseStyle |-> baseStyle, strategy |-> strategy]),
                   outcomes |-> 0 ] >>

withAgent(a) ==
    runtimeAgent' = << [runtimeAgent[1] EXCEPT !.agent = a, !.outcomes = @ + 1] >>

TurnTies ==
    /\ runtimeAgent[1].outcomes < MaxOutcomes
    /\ \E d1, d2 \in Rands, bias \in BiasDraws(runtimeAgent[1].lobbyId), n \in TurnBursts :
          withAgent(turnOutcomes(runtimeAgent[1].lobbyId, runtimeAgent[1].agent, "TIE",
                                 <<d1, d2>>, bias, n))
    /\ UNCHANGED <<clock, ticks, calls, cache, disk, contPresence, shadow, pass, addressed, lobbies, heap, requests>>

TurnOutcomes ==
    /\ runtimeAgent[1].outcomes < MaxOutcomes
    /\ \E outcome \in AgentIds, bias \in BiasDraws(runtimeAgent[1].lobbyId), n \in TurnBursts :
          withAgent(turnOutcomes(runtimeAgent[1].lobbyId, runtimeAgent[1].agent, outcome,
                                 <<0, 0>>, bias, n))
    /\ UNCHANGED <<clock, ticks, calls, cache, disk, contPresence, shadow, pass, addressed, lobbies, heap, requests>>

EpochOutcomes ==
    /\ runtimeAgent[1].outcomes < MaxOutcomes
    /\ \E winner \in {"A", "B", "TIE"}, draw \in Rands, n \in EpochBursts :
          withAgent(epochOutcomes(runtimeAgent[1].lobbyId, runtimeAgent[1].agent, winner, draw, n))
    /\ UNCHANGED <<clock, ticks, calls, cache, disk, contPresence, shadow, pass, addressed, lobbies, heap, requests>>

NextAgent ==
    \/ TurnTies
    \/ TurnOutcomes
    \/ EpochOutcomes

SpecAgent == InitAgent /\ [][NextAgent]_vars

inRanges(lobbyId, a) ==
    /\ 100 <= a.confidence /\ a.confidence <= 990
    /\ 80 <= a.riskLevel /\ a.riskLevel <= 990
    /\ LobbyParameters(lobbyId).intensityMin <= a.intensityBase
    /\ a.intensityBase <= LobbyParameters(lobbyId).intensityMax
    /\ 100 <= a.tempoPressure /\ a.tempoPressure <= 990
    /\ 80 <= a.mutationSensitivity /\ a.mutationSensitivity <= 1000
    /\ 80 <= a.volatility /\ a.volatility <= 990
    /\ a.bankroll >= 0

\* C15: after any turn outcomes and epoch outcomes in any order, in every
\* lobby and for every strategy: confidence is in [0.1, 0.99], riskLevel in
\* [0.08, 0.99], intensityBase within the lobby's intensity range,
\* tempoPressure in [0.1, 0.99], mutationSensitivity in [0.08, 1], volatility
\* in [0.08, 0.99] and bankroll >= 0.
C15_AgentFieldsInRange ==
    runtimeAgent # <<>> =>
        /\ inRanges(runtimeAgent[1].lobbyId, runtimeAgent[1].agent)
        /\ \A outcome \in {"A", "B", "TIE"}, d1, d2 \in Rands,
                 bias \in BiasDraws(runtimeAgent[1].lobbyId) :
              inRanges(runtimeAgent[1].lobbyId,
                       applyOutcomeMutationFull(runtimeAgent[1].lobbyId, runtimeAgent[1].agent,
                                                outcome, <<d1, d2>>, bias))
        /\ \A winner \in {"A", "B", "TIE"}, draw \in Rands :
              inRanges(runtimeAgent[1].lobbyId,
                       applyEpochBankrollMutationFull(runtimeAgent[1].lobbyId,
                                                      runtimeAgent[1].agent, winner, draw))

\* An agent at the lower ends after a run of lost epochs and lost turns, whose
\* next loss would leave every range but for the clamps.
C15_Witness ==
    /\ runtimeAgent # <<>>
    /\ runtimeAgent[1].outcomes = MaxOutcomes
    /\ runtimeAgent[1].agent.strategy = "SAFE"
    /\ runtimeAgent[1].agent.bankroll = 0
    /\ runtimeAgent[1].agent.confidence = 100
    /\ runtimeAgent[1].agent.riskLevel = 80
    /\ runtimeAgent[1].agent.volatility = 80
    /\ runtimeAgent[1].agent.losses > 0 /\ runtimeAgent[1].agent.lossCount > 0

-----------------------------------------------------------------------------
(* The stored elapsed-active time *)

storedElapsedOf(c) == IF c = <<>> THEN 0 ELSE c[1].loop.elapsedMs
carriedElapsedOf(c) == IF c = <<>> THEN 0 ELSE c[1].loop.runStartElapsedMs

elapsedKept(c, r) ==
    /\ storedElapsedOf(r.cache) >= storedElapsedOf(c)
    /\ (running(c) /\ ~running(r.cache)) =>
          storedElapsedOf(r.cache) >= carriedElapsedOf(c)
    /\ (~running(c) /\ running(r.cache)) =>
          /\ storedElapsedOf(r.cache) = storedElapsedOf(c)
          /\ carriedElapsedOf(r.cache) = storedElapsedOf(c)
          /\ countOf(r.cache) = countOf(c)

\* C22: loop.elapsedMs never decreases from one operation to the next (reset
\* and start aside); a call that pauses the loop stores a value no lower than
\* the one carried forward at the preceding resume (runStartElapsedMs), and a
\* call that resumes the loop leaves elapsedMs and processedClipCount
\* unchanged and carries elapsedMs forward.
\* The same is checked of every call that follows a resuming join.
C22_StoredElapsedNeverDecreases ==
    /\ \A delay \in PauseDelays :
          EveryNonReset(cache, disk, clock + delay, LAMBDA r : elapsedKept(cache, r))
    /\ (cache # <<>> /\ ~running(cache)) =>
          EveryJoin(cache, disk, clock, LAMBDA r :
              \A delay \in PauseDelays :
                  EveryNonReset(r.cache, r.disk, clock + delay,
                                LAMBDA q : elapsedKept(r.cache, q)))

\* A paused loop with a positive stored elapsed time is resumed by a join with
\* the value and the count kept, and paused again 10 s later by the leave of
\* that session, which stores at least the value carried forward.
C22_Witness ==
    /\ cache # <<>> /\ ~running(cache)
    /\ storedElapsedOf(cache) >= CLIP_SLOT_MS
    /\ \A r \in {joinPresence(cache, disk, clock, Session1, mintedSession(1))} :
          /\ running(r.cache)
          /\ storedElapsedOf(r.cache) = storedElapsedOf(cache)
          /\ carriedElapsedOf(r.cache) = storedElapsedOf(cache)
          /\ countOf(r.cache) = countOf(cache)
          /\ \A q \in {leavePresence(r.cache, r.disk, clock + CLIP_DURATION_MS, Session1)} :
                /\ ~running(q.cache)
                /\ storedElapsedOf(q.cache) >= carriedElapsedOf(r.cache)

-----------------------------------------------------------------------------
(* The materialized count after a catch-up that leaves the loop running *)

\* The calls that run a catch-up: getSnapshot, join, leave, and a vote or a
\* bet that has passed the tests made before the lobby is loaded
ranCatchUp(r) ==
    r.ret \notin {Error("InvalidSide"), Error("InvalidAddress"), Error("InvalidAmount")}
EveryCatchUp(c, d, now, P(_)) ==
    /\ EverySnapshot(c, d, now, P)
    /\ EveryJoin(c, d, now, P)
    /\ EveryLeave(c, d, now, P)
    /\ EveryVote(c, d, now, LAMBDA r : ranCatchUp(r) => P(r))
    /\ EveryBet(c, d, now, LAMBDA r : ranCatchUp(r) => P(r))

\* The turns a call has added are the indices from the count before the call
\* up to the count after it, each once, in increasing order (the history
\* list is most recent first).
addedInOrder(c, r) ==
    \A k \in 1..Min(countOf(r.cache) - countOf(c), Len(r.cache[1].clipHistory)) :
        r.cache[1].clipHistory[k].clipIndex = countOf(r.cache) - k

\* C24 as stated: after every catch-up that ends with the loop running, the
\* materialized-turn count is floor((elapsed-active(now) + gap) / slot), the
\* missing turns having been added one at a time in increasing index order,
\* also after pause/resume cycles.
C24_CountIsCompletedPlaybacks ==
    \A delay \in PauseDelays :
        EveryCatchUp(cache, disk, clock + delay, LAMBDA r :
            running(r.cache) =>
                /\ countOf(r.cache)
                      = ((elapsedOf(r.cache, clock + delay) + CLIP_GAP_MS) \div CLIP_SLOT_MS)
                /\ addedInOrder(cache, r))

\* What the code keeps: after every catch-up that ends with the loop running, the
\* materialized-turn count is the larger of the count before the call and
\* floor((elapsed-active(now) + gap) / slot), which makes it that floor or
\* one more; the missing turns have been added one at a time in increasing
\* index order.
C24_CountIsCompletedOrKept ==
    \A delay \in PauseDelays :
        EveryCatchUp(cache, disk, clock + delay, LAMBDA r :
            running(r.cache) =>
                /\ countOf(r.cache)
                      = Max(countOf(cache),
                            ((elapsedOf(r.cache, clock + delay) + CLIP_GAP_MS) \div CLIP_SLOT_MS))
                /\ countOf(r.cache)
                      <= ((elapsedOf(r.cache, clock + delay) + CLIP_GAP_MS) \div CLIP_SLOT_MS) + 1
                /\ addedInOrder(cache, r))

\* A loop paused inside an inter-turn gap (the count is one above stored
\* elapsed / slot) is resumed by a join with the count one above the floor;
\* a poll 10 s later, the replayed turn's playback over, adds no turn and
\* finds count and floor equal; a poll a slot after that adds one turn.
C24_Witness ==
    /\ cache # <<>> /\ ~running(cache)
    /\ countOf(cache) >= 2
    /\ countOf(cache) = storedElapsedOf(cache) \div CLIP_SLOT_MS + 1
    /\ \A r \in {joinPresence(cache, disk, clock, Session1, mintedSession(1))} :
          /\ running(r.cache)
          /\ countOf(r.cache) = ((elapsedOf(r.cache, clock) + CLIP_GAP_MS) \div CLIP_SLOT_MS) + 1
          /\ \A q \in {getMatchSnapshot(r.cache, r.disk, clock + CLIP_DURATION_MS, NoString)} :
                /\ running(q.cache)
                /\ countOf(q.cache) = countOf(cache)
                /\ countOf(q.cache)
                      = ((elapsedOf(q.cache, clock + CLIP_DURATION_MS) + CLIP_GAP_MS) \div CLIP_SLOT_MS)
          /\ \A q \in {getMatchSnapshot(r.cache, r.disk,
                                        clock + CLIP_DURATION_MS + CLIP_SLOT_MS, NoString)} :
                /\ running(q.cache)
                /\ countOf(q.cache) = countOf(cache) + 1

-----------------------------------------------------------------------------
(* Votes and materialized turns *)

VoteDelays == {0, CLIP_DURATION_MS}

\* Every vote accepted at time now names a turn that is not yet materialized
acceptedForOpenTurn(c, d, now) ==
    \A input \in VoteInputsOf(c, now) :
        \A r \in {castVote(c, d, now, input)} :
            r.ret.kind = "vote" => clipIndexOfId(input.clipId) >= countOf(r.cache)

\* C25: whenever a vote succeeds for turn index i, i is at least the
\* materialized-turn count, so that the tally stored in the turn's history
\* record holds every vote recorded for the turn; also for the votes cast
\* after the loop was paused and resumed.
C25_VoteOnlyForOpenTurn ==
    /\ \A delay \in VoteDelays : acceptedForOpenTurn(cache, disk, clock + delay)
    /\ (cache # <<>> /\ ~running(cache)) =>
          EveryJoin(cache, disk, clock, LAMBDA r :
              \A delay \in VoteDelays :
                  acceptedForOpenTurn(r.cache, r.disk, clock + delay))

-----------------------------------------------------------------------------
(* 32-bit words.  A word is <<high half, low half>>, each half in 0..65535,  *)
(* standing for high * 65536 + low; the int32 and the uint32 reading of a    *)
(* word share these bits.                                                    *)

Half == 65536

RECURSIVE xorBits(_, _, _)
xorBits(a, b, bits) ==
    IF bits = 0 THEN 0
    ELSE ((a + b) % 2) + 2 * xorBits(a \div 2, b \div 2, bits - 1)

RECURSIVE orBits(_, _, _)
orBits(a, b, bits) ==
    IF bits = 0 THEN 0
    ELSE (IF a % 2 = 1 \/ b % 2 = 1 THEN 1 ELSE 0) + 2 * orBits(a \div 2, b \div 2, bits - 1)

\* The XOR and the OR of two bytes, tabulated
XorByte == [a \in 0..255 |-> [b \in 0..255 |-> xorBits(a, b, 8)]]
OrByte == [a \in 0..255 |-> [b \in 0..255 |-> orBits(a, b, 8)]]
xorHalf(a, b) == XorByte[a \div 256][b \div 256] * 256 + XorByte[a % 256][b % 256]
orHalf(a, b) == OrByte[a \div 256][b \div 256] * 256 + OrByte[a % 256][b % 256]

\* x ^ y, x | y, x + y and x >>> n (0 < n < 16) on words
xor32(x, y) == <<xorHalf(x[1], y[1]), xorHalf(x[2], y[2])>>
or32(x, y) == <<orHalf(x[1], y[1]), orHalf(x[2], y[2])>>
add32(x, y) == <<(x[1] + y[1] + (x[2] + y[2]) \div Half) % Half, (x[2] + y[2]) % Half>>
shr32(x, n) ==
    <<x[1] \div (2 ^ n), x[2] \div (2 ^ n) + (x[1] % (2 ^ n)) * (2 ^ (16 - n))>>

\* (a * b) mod 65536 and floor(a * b / 65536) for halves a, b, formed from
\* products of a byte and a half
mulLow(a, b) == ((a % 256) * b + (((a \div 256) * b) % 256) * 256) % Half
mulHigh(a, b) ==
    ((a \div 256) * b + ((a % 256) * b) \div 256) \div 256

\* Math.imul(x, y): the low 32 bits of the product
imul(x, y) ==
    << (mulHigh(x[2], y[2]) + mulLow(x[1], y[2]) + mulLow(x[2], y[1])) % Half,
       mulLow(x[2], y[2]) >>

\* floor(word / 2^32 * 1000): the value in [0, 1) to three decimals
thousandthsOf(x) == (x[1] * 1000 + (x[2] * 1000) \div Half) \div Half

-----------------------------------------------------------------------------
(* hashSeed and mulberry32, matchStore.ts:147-167 *)

Lower == <<"a", "b", "c", "d", "e", "f", "g", "h", "i", "j", "k", "l", "m",
           "n", "o", "p", "q", "r", "s", "t", "u", "v", "w", "x", "y", "z">>
Upper == <<"A", "B", "C", "D", "E", "F", "G", "H", "I", "J", "K", "L", "M",
           "N", "O", "P", "Q", "R", "S", "T", "U", "V", "W", "X", "Y", "Z">>
Digits == <<"0", "1", "2", "3", "4", "5", "6", "7", "8", "9">>

indexIn(seq, ch) == CHOOSE i \in 1..Len(seq) : seq[i] = ch
isIn(seq, ch) == \E i \in 1..Len(seq) : seq[i] = ch

\* String.prototype.charCodeAt for the characters seeds are made of
charCodeAt(ch) ==
    IF isIn(Lower, ch) THEN 96 + indexIn(Lower, ch)
    ELSE IF isIn(Upper, ch) THEN 64 + indexIn(Upper, ch)
    ELSE IF isIn(Digits, ch) THEN 47 + indexIn(Digits, ch)
    ELSE IF ch = ":" THEN 58
    ELSE 45

\* String.prototype.toUpperCase, character by character
toUpperCase(chars) ==
    [i \in DOMAIN chars |->
        IF isIn(Lower, chars[i]) THEN Upper[indexIn(Lower, chars[i])] ELSE chars[i]]

\* The decimal digits of a natural number
RECURSIVE decimalOf(_)
decimalOf(n) ==
    IF n < 10 THEN <<Digits[n + 1]>>
    ELSE decimalOf(n \div 10) \o <<Digits[(n % 10) + 1]>>

\* 2166136261 and 16777619 as words
FnvOffset == <<33052, 40389>>
FnvPrime == <<256, 403>>

\* The loop of hashSeed, continued from accumulator h over the characters
RECURSIVE hashFrom(_, _)
hashFrom(h, chars) ==
    IF chars = <<>> THEN h
    ELSE CHOOSE result \in
            {hashFrom(next, Tail(chars)) :
                next \in {imul(xor32(h, <<0, charCodeAt(Head(chars))>>), FnvPrime)}} : TRUE

hashSeed(chars) == hashFrom(FnvOffset, chars)

\* One call of the generator mulberry32 returns: the new t and the value
\* drawn, as a word
\* 0x6d2b79f5 as a word
MulberryStep == <<27947, 31221>>
mulberryNext(t) ==
    CHOOSE result \in
        {[t |-> t1, value |-> xor32(x2, shr32(x2, 14))] :
            t1 \in {add32(t, MulberryStep)},
            x2 \in {CHOOSE x \in {xor32(x1, add32(x1, imul(xor32(x1, shr32(x1, 7)),
                                                            or32(<<0, 61>>, x1)))) :
                                    x1 \in {imul(xor32(add32(t, MulberryStep),
                                                       shr32(add32(t, MulberryStep), 15)),
                                                 or32(<<0, 1>>, add32(t, MulberryStep)))}} :
                        TRUE}} : TRUE

\* The first n values of mulberry32(seed), in thousandths
RECURSIVE drawsFrom(_, _)
drawsFrom(t, n) ==
    IF n = 0 THEN <<>>
    ELSE CHOOSE result \in
            {<<thousandthsOf(step.value)>> \o drawsFrom(step.t, n - 1) :
                step \in {mulberryNext(t)}} : TRUE

-----------------------------------------------------------------------------
(* The clip planner, matchStore.ts:803-921.  Fractions are in thousandths,   *)
(* sums are formed in millionths and rounded as round3 does; bpm is in       *)
(* tenths; the values of rand() are taken to three decimals.                 *)

charsOf(str) ==
    IF str = "drift-hard" THEN <<"d", "r", "i", "f", "t", "-", "h", "a", "r", "d">>
    ELSE IF str = "soft-night" THEN <<"s", "o", "f", "t", "-", "n", "i", "g", "h", "t">>
    ELSE <<"c", "h", "a", "o", "s", "-", "l", "a", "b">>

\* makeMatchId, matchStore.ts:179-182, as characters
makeMatchIdChars(lobbyId) ==
    <<"M", "O", "N", "A", "D", "-", "L", "I", "V", "E", "-">> \o toUpperCase(charsOf(lobbyId))

matchIdChars(matchId) ==
    makeMatchIdChars(CHOOSE lobbyId \in LobbyIds : matchIdOf(lobbyId) = matchId)

\* `${state.lobbyId}:${state.matchId}:${clipIndex}:${agent.id}`
planSeed(state, agent, clipIndex) ==
    charsOf(state.lobbyId) \o <<":">> \o matchIdChars(state.matchId) \o <<":">>
        \o decimalOf(clipIndex) \o <<":", agent.id>>

\* Math.round of a value in millionths, to thousandths
roundToThousandths(value) == (value + 500) \div 1000
abs(value) == IF value < 0 THEN -value ELSE value

\* One of the two style tests draws a number when its first two conjuncts hold
styleDraws(lobby, agent) ==
    \/ lobby.styleBias > 450 /\ agent.currentStyle = "SOFT"
    \/ lobby.styleBias < -450 /\ agent.currentStyle = "HARD"

planStyle(lobby, agent, draw) ==
    IF lobby.styleBias > 450 /\ agent.currentStyle = "SOFT" /\ draw < (lobby.styleBias * 2) \div 10
    THEN "HARD"
    ELSE IF lobby.styleBias < -450 /\ agent.currentStyle = "HARD"
            /\ draw < (abs(lobby.styleBias) * 2) \div 10
    THEN "SOFT"
    ELSE agent.currentStyle

planIntensity(lobby, agent, style, volatilityDraw, chaosDraw) ==
    roundToThousandths(
        clamp(agent.intensityBase * 1000
                + (IF style = "HARD" THEN 80000 ELSE -60000)
                + (IF agent.strategy = "AGGRESSIVE" THEN 90000
                   ELSE IF agent.strategy = "SAFE" THEN -40000 ELSE 10000)
                + (agent.confidence - 500) * 260
                + (agent.riskLevel - 500) * 200
                + ((volatilityDraw - 500) * agent.volatility * 4) \div 10
                + ((chaosDraw - 500) * lobby.chaosRate * 35) \div 100,
              lobby.intensityMin * 1000, lobby.intensityMax * 1000))

planMutationLevel(lobby, agent, draw) ==
    roundToThousandths(
        clamp(lobby.mutationSensitivity * 550
                + agent.mutationSensitivity * 350
                + agent.volatility * 200
                + lobby.chaosRate * 350
                + agent.riskLevel * 220
                + draw * 180,
              0, 1000000))

\* round1: in tenths of a beat per minute
planBpm(lobby, agent, style, intensity, mutationLevel, draw) ==
    (clamp((IF style = "HARD" THEN 124 ELSE 106) * 1000
             + lobby.bpmBias * 1000
             + intensity * 12
             + mutationLevel * 7
             + (agent.tempoPressure - 500) * 10
             + (agent.riskLevel - 500) * 6
             + (draw - 500) * 3,
           84000, 148000) + 50) \div 100

planPatternDensity(lobby, agent, intensity, mutationLevel, draw) ==
    roundToThousandths(
        clamp(460000
                + intensity * 340
                + mutationLevel * 280
                + (agent.riskLevel - 500) * 160
                + lobby.densityBias * 1000
                + (draw - 500) * 100,
              150000, 1000000))

planDistortion(lobby, agent, style, intensity, mutationLevel, draw) ==
    roundToThousandths(
        clamp((IF style = "HARD" THEN 500000 ELSE 240000)
                + intensity * 330
                + mutationLevel * 250
                + (IF agent.strategy = "AGGRESSIVE" THEN 80000 ELSE 0)
                + (agent.riskLevel - 500) * 200
                + lobby.chaosRate * 160
                + (draw - 500) * 80,
              50000, 1000000))

planFxChance(lobby, agent, style, mutationLevel, draw) ==
    roundToThousandths(
        clamp((IF style = "SOFT" THEN 420000 ELSE 220000)
                + lobby.fxBias * 1000
                + mutationLevel * 280
                + abs(agent.riskLevel - 500) * 80
                + (draw - 500) * 100,
              20000, 950000))

\* The plan from the numbers the generator yields, in the order of the calls
planFromDraws(lobby, agent, seed, draws) ==
    Bind(IF styleDraws(lobby, agent) THEN 1 ELSE 0, LAMBDA k :
    Bind(planStyle(lobby, agent, draws[1]), LAMBDA style :
    Bind(planIntensity(lobby, agent, style, draws[k + 1], draws[k + 2]), LAMBDA intensity :
    Bind(planMutationLevel(lobby, agent, draws[k + 3]), LAMBDA mutationLevel :
        [ seed |-> seed,
          style |-> style,
          intensity |-> intensity,
          bpm |-> planBpm(lobby, agent, style, intensity, mutationLevel, draws[k + 4]),
          patternDensity |->
              planPatternDensity(lobby, agent, intensity, mutationLevel, draws[k + 5]),
          distortion |->
              planDistortion(lobby, agent, style, intensity, mutationLevel, draws[k + 6]),
          mutationLevel |-> mutationLevel,
          fxChance |-> planFxChance(lobby, agent, style, mutationLevel, draws[k + 7]) ]))))

\* Variant: the seed is taken from the materialized count, not from the turn
computeClipPlan_countSeeded(state, agent, clipIndex) ==
    CHOOSE plan \in
        {planFromDraws(LobbyParameters(state.lobbyId), agent, seed, drawsFrom(hashSeed(seed), 8)) :
            seed \in {planSeed(state, agent, state.loop.processedClipCount)}} : TRUE
computeClipPlan(state, agent, clipIndex) ==
    CHOOSE plan \in
        {planFromDraws(LobbyParameters(state.lobbyId), agent, seed, drawsFrom(hashSeed(seed), 8)) :
            seed \in {planSeed(state, agent, clipIndex)}} : TRUE

-----------------------------------------------------------------------------
(* The planner reads its inputs only *)

\* The seed hash as a computation on unsigned numbers below 2^32: the
\* character is XORed into the low byte of the accumulator, and the product
\* with 16777619 = 2^24 + 403, modulo 2^32, is formed as the sum of the
\* accumulator shifted left by 24 bits and 403 times the accumulator.
RECURSIVE unsignedFnvFrom(_, _)
unsignedFnvFrom(acc, codes) ==
    IF codes = <<>> THEN acc
    ELSE CHOOSE result \in
            {unsignedFnvFrom(
                add32(<<(mixed[2] % 256) * 256, 0>>,
                      <<(mixed[1] * 403 + (mixed[2] * 403) \div Half) % Half,
                        (mixed[2] * 403) % Half>>),
                Tail(codes)) :
                mixed \in {<<acc[1], (acc[2] \div 256) * 256
                                        + xorBits(acc[2] % 256, Head(codes), 8)>>}} : TRUE

\* 2166136261 = 33052 * 65536 + 40389
unsignedFnv(chars) ==
    unsignedFnvFrom(<<33052, 40389>>,
                    [i \in DOMAIN chars |-> charCodeAt(chars[i])])

\* The agent handed to the planner: the fields the lobby state carries,
\* with values for the three it does not
GeneratedFields ==
    { [currentStyle |-> "HARD", riskLevel |-> 620, volatility |-> 550],
      [currentStyle |-> "SOFT", riskLevel |-> 340, volatility |-> 280] }
plannerAgent(agent, generated) ==
    [ id |-> agent.id,
      strategy |-> agent.strategy,
      confidence |-> agent.confidence,
      intensityBase |-> agent.intensityBase,
      mutationSensitivity |-> agent.mutationSensitivity,
      tempoPressure |-> agent.tempoPressure,
      currentStyle |-> generated.currentStyle,
      riskLevel |-> generated.riskLevel,
      volatility |-> generated.volatility ]

\* The plan of the next turn of lobby state c for its acting agent, evaluated
\* on the lobby states that later calls have left, is the plan evaluated on c
samePlanAfter(c, results) ==
    \A generated \in GeneratedFields :
        \A agent \in {plannerAgent(c[1].agents[activeAgentForClip(countOf(c))], generated)} :
            \A plan \in {computeClipPlan(c[1], agent, countOf(c))} :
                \A r \in results :
                    r.cache # <<>> => computeClipPlan(r.cache[1], agent, countOf(c)) = plan

-----------------------------------------------------------------------------
(* The planner's inputs while a turn plays *)

\* Moments of two later polls: within the turn that starts a slot after the
\* first one, and a slot further on
TurnMoments == {0, CLIP_GAP_MS, CLIP_SLOT_MS, 2 * CLIP_DURATION_MS}

\* What buildNowPlaying hands to the planner at time now: the playing turn's
\* index and the acting agent's fields as they are in the lobby state
plannerInputsAt(c, now) ==
    IF c = <<>> THEN <<>>
    ELSE Bind(buildNowPlaying(c[1], now), LAMBDA nowPlaying :
            IF nowPlaying = <<>> THEN <<>>
            ELSE << [ clipIndex |-> nowPlaying[1].clipIndex,
                      agent |-> plannerAgent(c[1].agents[nowPlaying[1].agentId],
                                             [currentStyle |-> "HARD", riskLevel |-> 0,
                                              volatility |-> 0]) ] >>)

\* C29: at any two moments at which now-playing shows the same turn, the
\* agent fields that feed the planner are the same, so that the style and
\* the parameters reported while the turn plays, and recorded when it is
\* materialized, are the same; also when an epoch ends inside the turn.
C29_PlannerInputsFixedWhilePlaying ==
    \A first \in TurnMoments, second \in TurnMoments :
        first < second =>
            \A r1 \in {getMatchSnapshot(cache, disk, clock + first, NoString)} :
                \A shown1 \in {plannerInputsAt(r1.cache, clock + first)} :
                    shown1 # <<>> =>
                        \A r2 \in {getMatchSnapshot(r1.cache, r1.disk, clock + second, NoString)} :
                            \A shown2 \in {plannerInputsAt(r2.cache, clock + second)} :
                                (shown2 # <<>> /\ shown2[1].clipIndex = shown1[1].clipIndex)
                                    => shown2 = shown1

-----------------------------------------------------------------------------
(* The catch-up pass one loop iteration at a time.  syncAndSnapshot         *)
(* (matchStore.ts:1509-1526) runs a while loop over the completed turns     *)
(* (syncClipSimulation, 1345-1362) and a for loop over the ended epochs     *)
(* (syncEpochLifecycle, 1187-1206).  Here a request is taken through the    *)
(* two loops one iteration per step, so that a loop that makes no progress  *)
(* shows as a pass that never ends.  The pass runs without interruption:    *)
(* while one is under way no other step is taken.                           *)

MaxPasses == 4
MaxIterations == 6

PassOps == {"snapshot", "join", "leave"}

\* The loop fields a damaged record is followed without
LoopDamageFields == {"running", "runStartedAt", "processedClipCount"}

\* The state a handler hands to syncAndSnapshot: the loaded state, with the
\* session entered (joinPresence, 1549-1556) or removed (leavePresence, 1574-1580)
enteredState(state, op, now) ==
    IF op = "join" THEN [state EXCEPT !.listeners = Put(@, Session1, now)]
    ELSE IF op = "leave" THEN [state EXCEPT !.listeners = Remove(@, {Session1})]
    ELSE state

\* The request up to the head of the while loop: load, stale listeners pruned,
\* the number of completed turns computed once
beginPass(c, d, now, op) ==
    Bind(loadLobbyState(c, d, now), LAMBDA loaded :
    Bind(pruneStaleListeners(enteredState(loaded.st, op, now), now), LAMBDA stale :
        [ op |-> op,
          now |-> now,
          loaded |-> [disk |-> loaded.disk, wrote |-> loaded.wrote],
          st |-> stale.st,
          changed |-> stale.changed,
          phase |-> "turns",
          looping |-> stale.st.loop.running,
          startCount |-> stale.st.loop.processedClipCount,
          completedClipCount |->
              completedClipCountAt(getActiveElapsedMs(stale.st, now)),
          iterations |-> 0,
          startEpoch |-> Null,
          cursor |-> Null,
          sweeps |-> 0 ]))

\* while (state.loop.processedClipCount < completedClipCount)
turnsPending(p) ==
    p.looping /\ p.st.loop.processedClipCount < p.completedClipCount

\* One iteration: processCompletedClip(state, state.loop.processedClipCount)
materializeStep(p) ==
    [p EXCEPT !.st = processCompletedClip(@, @.loop.processedClipCount),
              !.iterations = @ + 1,
              !.changed = TRUE]

\* After the while loop: applyListenerDrivenLoop, then syncEpochLifecycle up
\* to the head of its for loop (cursor = currentEpochId when it has no sweep)
turnsDone(p) ==
    Bind(applyListenerDrivenLoop(p.st, p.now), LAMBDA loop :
    Bind(ensureEpochAggregate(loop.st, epochIdFromMs(p.now)), LAMBDA s1 :
        IF s1.lastEpochId = Null
        THEN [p EXCEPT !.st = [s1 EXCEPT !.lastEpochId = epochIdFromMs(p.now)],
                       !.changed = TRUE,
                       !.phase = "epochs",
                       !.startEpoch = epochIdFromMs(p.now),
                       !.cursor = epochIdFromMs(p.now)]
        ELSE IF epochIdFromMs(p.now) <= s1.lastEpochId
        THEN [p EXCEPT !.st = s1,
                       !.changed = @ \/ loop.changed,
                       !.phase = "epochs",
                       !.startEpoch = epochIdFromMs(p.now),
                       !.cursor = epochIdFromMs(p.now)]
        ELSE [p EXCEPT !.st = s1,
                       !.changed = TRUE,
                       !.phase = "epochs",
                       !.startEpoch = s1.lastEpochId,
                       !.cursor = s1.lastEpochId]))

\* for (epochId = state.lastEpochId; epochId < currentEpochId; epochId += 1)
sweepPending(p) == p.cursor < epochIdFromMs(p.now)

sweepStep(p) ==
    [p EXCEPT !.st = finalizeEpochIfNeeded(@, p.cursor, p.now).st,
              !.cursor = @ + 1,
              !.sweeps = @ + 1]

\* After the for loop: lastEpochId, the snapshot, and what the handler leaves
endPass(p) ==
    Bind([p.st EXCEPT !.lastEpochId = IF p.sweeps > 0 THEN epochIdFromMs(p.now) ELSE @],
         LAMBDA s1 :
    Bind(buildSnapshot(s1, p.now, NoString), LAMBDA built :
        afterSync(p.loaded, [st |-> built.st, changed |-> p.changed], p.now,
                  built.snapshot)))

BeginPass ==
    /\ pass = <<>>
    /\ calls < MaxPasses
    /\ \E op \in PassOps : pass' = <<beginPass(cache, disk, clock, op)>>
    /\ calls' = calls + 1
    /\ UNCHANGED <<clock, ticks, cache, disk, contPresence, shadow, runtimeAgent, addressed, lobbies, heap, requests>>

MaterializeStep ==
    /\ pass # <<>>
    /\ pass[1].phase = "turns"
    /\ turnsPending(pass[1])
    /\ pass[1].iterations < MaxIterations
    /\ pass' = <<materializeStep(pass[1])>>
    /\ UNCHANGED <<clock, ticks, calls, cache, disk, contPresence, shadow, runtimeAgent, addressed, lobbies, heap, requests>>

TurnsDone ==
    /\ pass # <<>>
    /\ pass[1].phase = "turns"
    /\ ~turnsPending(pass[1])
    /\ pass' = <<turnsDone(pass[1])>>
    /\ UNCHANGED <<clock, ticks, calls, cache, disk, contPresence, shadow, runtimeAgent, addressed, lobbies, heap, requests>>

SweepStep ==
    /\ pass # <<>>
    /\ pass[1].phase = "epochs"
    /\ sweepPending(pass[1])
    /\ pass' = <<sweepStep(pass[1])>>
    /\ UNCHANGED <<clock, ticks, calls, cache, disk, contPresence, shadow, runtimeAgent, addressed, lobbies, heap, requests>>

EndPass ==
    /\ pass # <<>>
    /\ pass[1].phase = "epochs"
    /\ ~sweepPending(pass[1])
    /\ cache' = endPass(pass[1]).cache
    /\ disk' = endPass(pass[1]).disk
    /\ pass' = <<>>
    /\ UNCHANGED <<clock, ticks, calls, contPresence, shadow, runtimeAgent, addressed, lobbies, heap, requests>>

PassTick ==
    /\ pass = <<>>
    /\ Tick

PassRestart ==
    /\ pass = <<>>
    /\ Restart

\* A durable record whose loop lacks a field (or holds it with the wrong
\* type: sanitizeLoop treats the two alike)
DamageLoop ==
    /\ pass = <<>>
    /\ cache = <<>>
    /\ disk # <<>>
    /\ \E field \in LoopDamageFields \cap DOMAIN disk[1].loop :
          disk' = <<[disk[1] EXCEPT !.loop = without(@, field)]>>
    /\ UNCHANGED <<clock, ticks, calls, cache, contPresence, shadow, runtimeAgent, pass, addressed, lobbies, heap, requests>>

NextPass ==
    \/ PassTick
    \/ BeginPass
    \/ MaterializeStep
    \/ TurnsDone
    \/ SweepStep
    \/ EndPass
    \/ PassRestart
    \/ DamageLoop

SpecPass == Init /\ [][NextPass]_vars

\* C30: every catch-up pass terminates for every state that load can return:
\* the turn loop performs exactly (completed count - materialized count)
\* iterations, each of which adds one to the materialized count, and the
\* epoch sweep performs exactly (current epoch - last-seen epoch) iterations.
\* As a property of every moment of a pass: the iterations so far are as many
\* as the count has grown, they never exceed the number the loop set out to
\* do, and once the loop is left the count has reached the completed count;
\* likewise the sweep.
C30_PassPerformsExactlyThePendingIterations ==
    pass # <<>> =>
        /\ pass[1].st.loop.processedClipCount = pass[1].startCount + pass[1].iterations
        /\ pass[1].looping =>
              pass[1].iterations <= Max(0, pass[1].completedClipCount - pass[1].startCount)
        /\ (pass[1].phase = "epochs" /\ pass[1].looping) =>
              pass[1].iterations = Max(0, pass[1].completedClipCount - pass[1].startCount)
        /\ pass[1].phase = "epochs" =>
              /\ pass[1].sweeps = pass[1].cursor - pass[1].startEpoch
              /\ pass[1].cursor <= epochIdFromMs(pass[1].now)

\* The loop of a state that is running without a run start: it is entered
\* and its body returns at once, whatever the number of iterations
passMakesNoProgress(p) ==
    /\ p.phase = "turns"
    /\ turnsPending(p)
    /\ p.st.loop.runStartedAt = Null

\* The same request in one piece, as the handlers above take it
wholePass(c, d, now, op) ==
    Bind(loadLobbyState(c, d, now), LAMBDA loaded :
    Bind(syncAndSnapshot(enteredState(loaded.st, op, now), now, NoString), LAMBDA synced :
        afterSync(loaded, synced, now, synced.snapshot)))

\* What holds of the code: a pass over a state whose loop has a run start
\* whenever it is running performs exactly the pending iterations and ends
\* with what the handler leaves when taken in one piece
C30_PassEndsWhenRunStartKnown ==
    pass # <<>> =>
        \/ /\ pass[1].looping
           /\ pass[1].st.loop.runStartedAt = Null
           /\ pass[1].startCount < pass[1].completedClipCount
        \/ /\ C30_PassPerformsExactlyThePendingIterations
           /\ (pass[1].phase = "epochs" /\ ~sweepPending(pass[1])) =>
                 \A whole \in {wholePass(cache, disk, pass[1].now, pass[1].op)} :
                     /\ endPass(pass[1]).cache = whole.cache
                     /\ endPass(pass[1]).disk = whole.disk

\* A pass that has gone round the turn loop more often than there were turns
\* pending, and is no further
C30_PassStuck ==
    /\ pass # <<>>
    /\ passMakesNoProgress(pass[1])
    /\ pass[1].iterations > pass[1].completedClipCount - pass[1].startCount
    /\ pass[1].st.loop.processedClipCount = pass[1].startCount

-----------------------------------------------------------------------------
(* Several lobbies in one process.  Every exported operation resolves the   *)
(* lobby id of its request (resolveLobbyIdOrThrow, matchStore.ts:766-776),  *)
(* loads cache[lobbyId] or the file stateFilePath(lobbyId) (745-764) and    *)
(* writes the file and the cache entry named by state.lobbyId (739-743).    *)
(* A request is followed in two steps: it is addressed, then it is served.  *)
(* The engine is followed for drift-hard and soft-night; chaos-lab is in    *)
(* the store and is not addressed (its lobby bias draws from the generator).*)
(* startMatch and resetMatch without a lobby id reset every lobby, one      *)
(* resetLobbyState each: here they are followed with a lobby id.            *)

MaxLobbyCalls == 3
MaxLobbyTicks == 2

DefaultLobbyId == "drift-hard"
LobbyInputs == {"drift-hard", "soft-night", "", "no-such-lobby"}

\* The lobby id, or the message of the error thrown
resolveLobbyIdOrThrow(input) ==
    IF input \in LobbyIds THEN input
    ELSE IF input = "" THEN DefaultLobbyId
    ELSE "Unknown lobbyId."

cacheOf(store, lobbyId) == store.caches[lobbyId]
fileOf(store, lobbyId) == store.files[stateFilePath(lobbyId)]

\* The store after a call served from the entries of lobbyId: the cache entry
\* is set under the id of the request when the state was loaded
\* (cache[lobbyId] = hydrated) and under state.lobbyId when it was written;
\* the file written is the one of state.lobbyId
storeAfter(store, lobbyId, result) ==
    [ caches |->
          IF result.cache = <<>> THEN store.caches
          ELSE [store.caches EXCEPT
                   ![IF result.wrote THEN result.cache[1].lobbyId ELSE lobbyId] = result.cache],
      files |->
          IF result.disk = fileOf(store, lobbyId) THEN store.files
          ELSE [store.files EXCEPT ![stateFilePath(result.disk[1].lobbyId)] = result.disk],
      request |-> store.request ]

InitLobbies ==
    /\ clock = T0
    /\ ticks = 0
    /\ calls = 0
    /\ cache = <<>>
    /\ disk = <<>>
    /\ contPresence = TRUE
    /\ shadow = <<>>
    /\ runtimeAgent = <<>>
    /\ pass = <<>>
    /\ addressed = DefaultLobbyId
    /\ lobbies = EmptyStore
    /\ heap = EmptyHeap
    /\ requests = <<>>

LobbyTick ==
    /\ ticks < MaxLobbyTicks
    /\ Tick

\* A request arrives and its lobby id resolves
Address ==
    /\ calls < MaxLobbyCalls
    /\ \E input \in LobbyInputs :
          /\ resolveLobbyIdOrThrow(input) \in LobbyIds
          /\ addressed' = resolveLobbyIdOrThrow(input)
          /\ lobbies' = [lobbies EXCEPT !.request = input]
    /\ UNCHANGED <<clock, ticks, calls, cache, disk, contPresence, shadow, runtimeAgent, pass, heap, requests>>

\* A request whose lobby id does not resolve fails before anything is loaded
AddressUnknown ==
    /\ calls < MaxLobbyCalls
    /\ \E input \in LobbyInputs :
          /\ resolveLobbyIdOrThrow(input) \notin LobbyIds
          /\ lobbies' = [lobbies EXCEPT !.request = input]
    /\ calls' = calls + 1
    /\ UNCHANGED <<clock, ticks, cache, disk, contPresence, shadow, runtimeAgent, pass, addressed, heap, requests>>

served == resolveLobbyIdOrThrow(lobbies.request) = addressed

LobbyApply(result) ==
    /\ calls < MaxLobbyCalls
    /\ served
    /\ calls' = calls + 1
    /\ lobbies' = storeAfter(lobbies, addressed, result)
    /\ UNCHANGED <<clock, ticks, cache, disk, contPresence, shadow, runtimeAgent, pass, addressed, heap, requests>>

LobbyGetSnapshot ==
    \E viewer \in Viewers :
        LobbyApply(getMatchSnapshot(cacheOf(lobbies, addressed), fileOf(lobbies, addressed),
                                    clock, viewer))

LobbyJoin ==
    \E raw \in SessionInputs :
        LobbyApply(joinPresence(cacheOf(lobbies, addressed), fileOf(lobbies, addressed),
                                clock, raw, mintedSession(1)))

LobbyLeave ==
    \E raw \in SessionInputs :
        LobbyApply(leavePresence(cacheOf(lobbies, addressed), fileOf(lobbies, addressed),
                                 clock, raw))

LobbyCastVote ==
    \E input \in VoteInputsOf(cacheOf(lobbies, addressed), clock) :
        LobbyApply(castVote(cacheOf(lobbies, addressed), fileOf(lobbies, addressed),
                            clock, input))

LobbyRegisterBet ==
    \E input \in BetInputsOf(clock) :
        LobbyApply(registerBet(cacheOf(lobbies, addressed), fileOf(lobbies, addressed),
                               clock, input))

LobbyMarkClaimed ==
    \E input \in ClaimInputsOf(clock) :
        LobbyApply(markClaimed(cacheOf(lobbies, addressed), fileOf(lobbies, addressed),
                               clock, input))

LobbyStartMatch ==
    /\ lobbies.request # ""
    /\ LobbyApply(startMatch(cacheOf(lobbies, addressed), fileOf(lobbies, addressed), clock))

LobbyResetMatch ==
    /\ lobbies.request # ""
    /\ LobbyApply(resetMatch(cacheOf(lobbies, addressed), fileOf(lobbies, addressed), clock))

NextLobbies ==
    \/ LobbyTick
    \/ Address
    \/ AddressUnknown
    \/ LobbyGetSnapshot
    \/ LobbyJoin
    \/ LobbyLeave
    \/ LobbyCastVote
    \/ LobbyRegisterBet
    \/ LobbyMarkClaimed
    \/ LobbyStartMatch
    \/ LobbyResetMatch

SpecLobbies == InitLobbies /\ [][NextLobbies]_vars

\* C23: an operation addressed to one lobby id (getSnapshot, join, leave,
\* vote, placeBet, markClaimed, start or reset with that id), whether it
\* succeeds or fails, leaves every other lobby's cached and persisted state
\* unchanged: in every step, the cache entry and the file of every lobby
\* other than the one the request resolved to are what they were.
C23_OtherLobbiesUnchanged ==
    [][\A lobbyId \in LobbyIds \ {addressed} :
          /\ cacheOf(lobbies', lobbyId) = cacheOf(lobbies, lobbyId)
          /\ fileOf(lobbies', lobbyId) = fileOf(lobbies, lobbyId)]_vars

\* Two lobbies with a cached and persisted state each, one with its loop
\* running; a reset addressed to the other changes that one's cache entry
\* and file
C23_Witness ==
    /\ served
    /\ lobbies.request = addressed
    /\ \E other \in LobbyIds \ {addressed} :
          /\ cacheOf(lobbies, other) # <<>>
          /\ fileOf(lobbies, other) # <<>>
          /\ cacheOf(lobbies, other)[1].lobbyId = other
          /\ cacheOf(lobbies, other)[1].loop.running
    /\ cacheOf(lobbies, addressed) # <<>>
    /\ cacheOf(lobbies, addressed)[1].lobbyId = addressed
    /\ DOMAIN cacheOf(lobbies, addressed)[1].listeners # {}
    /\ \A after \in {storeAfter(lobbies, addressed,
                        resetMatch(cacheOf(lobbies, addressed), fileOf(lobbies, addressed),
                                   clock))} :
          /\ cacheOf(after, addressed) # cacheOf(lobbies, addressed)
          /\ fileOf(after, addressed) # fileOf(lobbies, addressed)

-----------------------------------------------------------------------------
(* Concurrent requests on one lobby.  The handlers are async functions: a   *)
(* request runs until it awaits the load of the lobby state                 *)
(* (loadLobbyState, matchStore.ts:745-764) or a write (writeLobbyState,     *)
(* 739-743), and other requests run while it waits.  Between two awaits a   *)
(* request runs alone (one thread).  The cache holds a reference to a state *)
(* object; requests that hit the cache mutate the same object, requests     *)
(* that miss it while the file is being read hydrate an object each.        *)
(* A request is suspended at: the awaited load (also on a cache hit), the   *)
(* read of the file, every fs.writeFile.  JSON.stringify runs before the    *)
(* write is awaited, so the text written is the state at that moment; the   *)
(* file has it, and the cache entry is set, when the write completes.       *)

MaxRaceRequests == 3
MaxRaceTicks == 3
MaxInFlight == 2

objectOf(h, ref) == h.objects[ref]
withObject(h, ref, state) == [h EXCEPT !.objects[ref] = state]
cachedState(h) == IF h.cached = <<>> THEN <<>> ELSE <<h.objects[h.cached[1]]>>

inFlight(rs) == {i \in 1..Len(rs) : rs[i].pc # "done"}

\* A request as it is received: the lobby id resolved, the cache looked up
\* (745-749).  now is Date.now() at the call, which getMatchSnapshot takes
\* as the default of its parameter (1536-1540); the other handlers take it
\* after the load.
newRequest(kind, input, h, t) ==
    [ kind |-> kind,
      input |-> input,
      pc |-> IF h.cached # <<>> THEN "loaded" ELSE "reading",
      obj |-> IF h.cached # <<>> THEN h.cached[1] ELSE 0,
      now |-> t,
      ret |-> <<>>,
      text |-> <<>>,
      after |-> "",
      added |-> {} ]

\* The read of the file has completed (752-757): the record is hydrated into
\* a new object and the cache entry set to it; without a file, fresh defaults
\* are written first (758-762)
readDone(h, d, r, t) ==
    IF d # <<>> /\ ~Has(d[1], "unparseable")
    THEN [ heap |-> [objects |-> Append(h.objects, hydrateLobbyState(d[1], t)),
                     cached |-> <<Len(h.objects) + 1>>],
           disk |-> d,
           request |-> [r EXCEPT !.pc = "loaded", !.obj = Len(h.objects) + 1] ]
    ELSE Bind(writeLobbyState(defaultLobbyState(t), t), LAMBDA initial :
           [ heap |-> [h EXCEPT !.objects = Append(@, initial)],
             disk |-> d,
             request |-> [r EXCEPT !.pc = "writing", !.obj = Len(h.objects) + 1,
                                   !.text = <<initial>>, !.after = "loaded"] ])

\* A write has completed (741-742): the file holds the text, the cache entry
\* is the writer's object
writeDone(h, d, r) ==
    [ heap |-> [h EXCEPT !.cached = <<r.obj>>],
      disk |-> r.text,
      request |-> [r EXCEPT !.pc = r.after, !.text = <<>>] ]

\* castVote after its catch-up, 1605-1643
voteAfterSync(state, now, input) ==
    Bind(buildNowPlaying(state, now), LAMBDA nowPlaying :
        IF nowPlaying = <<>>
        THEN [st |-> state, write |-> FALSE, ret |-> Error("LobbyIdle")]
        ELSE IF nowPlaying[1].clipId # input.clipId
        THEN [st |-> state, write |-> FALSE, ret |-> Error("TurnMismatch")]
        ELSE
        Bind(ensureVoteState(state, input.clipId), LAMBDA s1 :
            IF normalizeAddress(input.address) \in DOMAIN s1.votesByClip[input.clipId].votes
            THEN [st |-> s1, write |-> FALSE, ret |-> Error("AlreadyVoted")]
            ELSE Bind(recordVote(s1, now, input, normalizeAddress(input.address)), LAMBDA s4 :
                     [st |-> s4, write |-> TRUE, ret |-> voteResult(s4, input)])))

\* registerBet after its catch-up, 1673-1713
betAfterSync(state, now, input) ==
    IF epochIdFromMs(now) # input.epochId
    THEN [st |-> state, write |-> FALSE, ret |-> Error("EpochMismatch")]
    ELSE Bind(recordBet(ensureEpochAggregate(state, epochIdFromMs(now)),
                        epochIdFromMs(now), input, normalizeAddress(input.address)),
              LAMBDA s3 :
             [ st |-> s3, write |-> TRUE,
               ret |-> betResult(s3, epochIdFromMs(now), normalizeAddress(input.address)) ])

\* The request from the end of its catch-up to its next await or its return
continued(h, d, r, t) ==
    Bind(IF r.kind = "vote"
         THEN voteAfterSync(objectOf(h, r.obj), r.now, r.input)
         ELSE betAfterSync(objectOf(h, r.obj), r.now, r.input), LAMBDA body :
        IF body.write
        THEN Bind(writeLobbyState(body.st, t), LAMBDA written :
               [ heap |-> withObject(h, r.obj, written),
                 disk |-> d,
                 request |-> [r EXCEPT !.pc = "writing", !.text = <<written>>,
                                       !.after = "done", !.ret = <<body.ret>>] ])
        ELSE [ heap |-> withObject(h, r.obj, body.st),
               disk |-> d,
               request |-> [r EXCEPT !.pc = "done", !.ret = <<body.ret>>] ])

\* The turns a catch-up has materialized
turnsAdded(before, after) ==
    {i \in 0..(after.loop.processedClipCount - 1) : i >= before.loop.processedClipCount}

\* The request from the return of the load to its next await or its return:
\* Date.now(), the presence change of join, the catch-up (syncAndSnapshot,
\* 1509-1526) with its write when something changed
resumed(h, d, r, t) ==
    Bind(IF r.kind = "snapshot" THEN r.now ELSE t, LAMBDA now :
    Bind(syncAndSnapshot(enteredState(objectOf(h, r.obj), r.kind, now), now, NoString),
         LAMBDA synced :
    Bind([r EXCEPT !.now = now,
                   !.added = turnsAdded(objectOf(h, r.obj), synced.st),
                   !.ret = IF r.kind = "join"
                           THEN << [kind |-> "join", sessionId |-> Session1,
                                    snapshot |-> synced.snapshot] >>
                           ELSE IF r.kind = "snapshot" THEN <<synced.snapshot>>
                           ELSE <<>>], LAMBDA r1 :
        IF synced.changed
        THEN Bind(writeLobbyState(synced.st, t), LAMBDA written :
               [ heap |-> withObject(h, r.obj, written),
                 disk |-> d,
                 request |-> [r1 EXCEPT !.pc = "writing", !.text = <<written>>,
                                        !.after = IF r.kind \in {"vote", "bet"}
                                                  THEN "synced" ELSE "done"] ])
        ELSE IF r.kind \in {"vote", "bet"}
        THEN continued(withObject(h, r.obj, synced.st), d, r1, t)
        ELSE [ heap |-> withObject(h, r.obj, synced.st),
               disk |-> d,
               request |-> [r1 EXCEPT !.pc = "done"] ])))

InitRace ==
    /\ clock = T0
    /\ ticks = 0
    /\ calls = 0
    /\ cache = <<>>
    /\ disk = <<>>
    /\ contPresence = TRUE
    /\ shadow = <<>>
    /\ runtimeAgent = <<>>
    /\ pass = <<>>
    /\ addressed = DefaultLobbyId
    /\ lobbies = EmptyStore
    /\ heap = EmptyHeap
    /\ requests = <<>>

RaceTick ==
    /\ ticks < MaxRaceTicks
    /\ ticks' = ticks + 1
    /\ clock' = clock + CLIP_DURATION_MS
    /\ UNCHANGED <<calls, cache, disk, contPresence, shadow, runtimeAgent, pass, addressed, lobbies, heap, requests>>

Receive(kind, input) ==
    /\ Len(requests) < MaxRaceRequests
    /\ Cardinality(inFlight(requests)) < MaxInFlight
    /\ requests' = Append(requests, newRequest(kind, input, heap, clock))
    /\ UNCHANGED <<clock, ticks, calls, cache, disk, contPresence, shadow, runtimeAgent, pass, addressed, lobbies, heap>>

ReceiveJoin == Receive("join", [sessionId |-> Session1])

ReceiveSnapshot == Receive("snapshot", [viewer |-> NoString])

\* What a client last saw of the lobby: the cached state, or the record when
\* the cache is empty
lastSeen == IF cache # <<>> THEN cache ELSE disk

\* The client votes for the turn its last snapshot showed playing
ReceiveVote ==
    /\ lastSeen # <<>>
    /\ buildNowPlaying(lastSeen[1], clock) # <<>>
    /\ Receive("vote", [clipId |-> buildNowPlaying(lastSeen[1], clock)[1].clipId,
                        side |-> "A", address |-> Addr1])

\* The client stakes on the epoch its last snapshot showed open
ReceiveBet ==
    /\ lastSeen # <<>>
    /\ Receive("bet", [epochId |-> epochIdFromMs(clock), side |-> "B", amountWei |-> 1,
                       address |-> Addr2])

Proceed(i, out) ==
    /\ heap' = out.heap
    /\ disk' = out.disk
    /\ cache' = cachedState(out.heap)
    /\ requests' = [requests EXCEPT ![i] = out.request]
    /\ UNCHANGED <<clock, ticks, calls, contPresence, shadow, runtimeAgent, pass, addressed, lobbies>>

ReadDone ==
    \E i \in 1..Len(requests) :
        /\ requests[i].pc = "reading"
        /\ Proceed(i, readDone(heap, disk, requests[i], clock))

WriteDone ==
    \E i \in 1..Len(requests) :
        /\ requests[i].pc = "writing"
        /\ Proceed(i, writeDone(heap, disk, requests[i]))

Resume ==
    \E i \in 1..Len(requests) :
        /\ requests[i].pc = "loaded"
        /\ Proceed(i, resumed(heap, disk, requests[i], clock))

Continue ==
    \E i \in 1..Len(requests) :
        /\ requests[i].pc = "synced"
        /\ Proceed(i, continued(heap, disk, requests[i], clock))

\* The process restarts when no request is under way: the cache is lost
RaceRestart ==
    /\ inFlight(requests) = {}
    /\ heap.cached # <<>>
    /\ heap' = [heap EXCEPT !.cached = <<>>]
    /\ cache' = <<>>
    /\ UNCHANGED <<clock, ticks, calls, disk, contPresence, shadow, runtimeAgent, pass, addressed, lobbies, requests>>

NextRace ==
    \/ RaceTick
    \/ ReceiveJoin
    \/ ReceiveSnapshot
    \/ ReceiveVote
    \/ ReceiveBet
    \/ ReadDone
    \/ WriteDone
    \/ Resume
    \/ Continue
    \/ RaceRestart

SpecRace == InitRace /\ [][NextRace]_vars

\* The lobby states in being: the cached one, the persisted one
heldStates == {holder[1] : holder \in {cache, disk} \ {<<>>}}

\* C26: under any interleaving of concurrent requests on one lobby, a vote or
\* a bet is only ever added to the aggregate of an epoch that is not
\* finalized, so every finalized aggregate's winner stays equal to the
\* strict-majority side of its stored vote counts.
C26_FinalizedWinnerIsMajority ==
    \A state \in heldStates :
        \A epochId \in DOMAIN state.epochAggregates :
            state.epochAggregates[epochId].finalizedAt # Null =>
                state.epochAggregates[epochId].winner =
                    IF state.epochAggregates[epochId].votesA
                           > state.epochAggregates[epochId].votesB THEN "A"
                    ELSE IF state.epochAggregates[epochId].votesB
                           > state.epochAggregates[epochId].votesA THEN "B"
                    ELSE "TIE"

\* A vote acknowledged by a request whose catch-up ran in an epoch that
\* another request has finalized before the vote was counted: the first
\* request joined and was served, the second is the vote, the third the
\* request whose catch-up ran while the vote's write was under way
C26_VoteCountedAfterFinalization ==
    /\ Len(requests) = 3
    /\ requests[1].kind = "join" /\ requests[1].now = T0
    /\ requests[2].kind = "vote" /\ requests[2].pc = "done"
    /\ requests[2].now = T0 + 2 * CLIP_DURATION_MS
    /\ requests[2].ret[1].kind = "vote"
    /\ requests[3].kind = "bet" /\ requests[3].pc = "done"
    /\ requests[3].now = T0 + 3 * CLIP_DURATION_MS
    /\ epochIdFromMs(requests[2].now) = 0
    /\ epochIdFromMs(requests[3].now) = 1
    /\ \A state \in heldStates :
          /\ state.epochAggregates[0].finalizedAt = requests[3].now
          /\ state.epochAggregates[0].winner = "TIE"
          /\ state.epochAggregates[0].votesA = 1
          /\ state.epochAggregates[0].votesB = 0
    /\ cache # <<>> /\ disk # <<>>

\* The history entries a state holds for a turn index
entriesFor(state, clipIndex) ==
    Cardinality({k \in 1..Len(state.clipHistory) :
                    state.clipHistory[k].clipIndex = clipIndex})

\* Two requests whose catch-up passes have both materialized the turn
bothAppended(i, j, clipIndex) ==
    /\ i # j
    /\ clipIndex \in requests[i].added
    /\ clipIndex \in requests[j].added

\* Every lobby state object of the process, the cached one and the record
allStates == heldStates \cup {heap.objects[ref] : ref \in 1..Len(heap.objects)}

\* C27 as stated: in the interleaving of two concurrent catch-up passes in
\* which both decide that turn N must be materialized and both append it,
\* the lobby is left with two history entries (and two applications of the
\* outcome mutation) for the same turn index.
C27_BothAppendLeavesTwoEntries ==
    \A i, j \in 1..Len(requests) :
        \A clipIndex \in requests[i].added :
            (bothAppended(i, j, clipIndex) /\ inFlight(requests) = {} /\ cache # <<>>) =>
                entriesFor(cache[1], clipIndex) = 2

\* What the code does: each of the two passes appends the turn to its own
\* copy of the state, once; no state object, and neither the cached nor the
\* persisted state, ever holds two history entries for one turn index, and
\* in each the turns played by the agents are as many as the turns
\* materialized.
C27_EachCopyHoldsTheTurnOnce ==
    /\ \A state \in allStates :
          /\ \A k \in 1..Len(state.clipHistory) :
                entriesFor(state, state.clipHistory[k].clipIndex) = 1
          /\ state.agents.A.clipsPlayed + state.agents.B.clipsPlayed
                 = state.loop.processedClipCount
    /\ \A i, j \in 1..Len(requests) :
          \A clipIndex \in requests[i].added :
              bothAppended(i, j, clipIndex) =>
                  /\ requests[i].obj # requests[j].obj
                  /\ entriesFor(objectOf(heap, requests[i].obj), clipIndex) = 1
                  /\ entriesFor(objectOf(heap, requests[j].obj), clipIndex) = 1

\* Two requests that missed the cache together, each with a copy of its own,
\* have both materialized turn 0; the state cached and persisted in the end
\* holds it once
C27_Witness ==
    /\ inFlight(requests) = {}
    /\ cache # <<>>
    /\ disk # <<>>
    /\ \E i, j \in 1..Len(requests) :
          /\ bothAppended(i, j, 0)
          /\ requests[i].obj # requests[j].obj
          /\ entriesFor(cache[1], 0) = 1
          /\ entriesFor(disk[1], 0) = 1
          /\ cache[1].loop.processedClipCount = 1

\* The vote of a request is in the ledger of its turn
hasVote(state, input) ==
    /\ input.clipId \in DOMAIN state.votesByClip
    /\ normalizeAddress(input.address) \in DOMAIN state.votesByClip[input.clipId].votes

\* A vote that was acknowledged to its caller
acknowledged(r) ==
    /\ r.kind = "vote"
    /\ r.pc = "done"
    /\ r.ret[1].kind = "vote"

\* An acknowledged vote that neither the cached nor the persisted state holds
lostVote(i) ==
    /\ acknowledged(requests[i])
    /\ cache # <<>>
    /\ disk # <<>>
    /\ ~hasVote(cache[1], requests[i].input)
    /\ ~hasVote(disk[1], requests[i].input)

\* C28: there is an interleaving of two concurrent requests on the same lobby
\* in which a vote or bet that was acknowledged to its caller as successful
\* is absent from the lobby state that ends up cached and persisted, because
\* the other request's stale copy overwrites it.  As a property of every
\* state: an acknowledged vote is absent from the cached and persisted state
\* only when the cached object is not the voter's but the copy of another
\* request, a copy without the vote; the voter's own object keeps it.
C28_LostVoteIsOverwrittenByAnotherCopy ==
    \A i \in 1..Len(requests) :
        /\ acknowledged(requests[i]) =>
              hasVote(objectOf(heap, requests[i].obj), requests[i].input)
        /\ lostVote(i) =>
              /\ heap.cached # <<requests[i].obj>>
              /\ \E j \in 1..Len(requests) :
                    /\ j # i
                    /\ requests[j].obj # requests[i].obj
                    /\ heap.cached = <<requests[j].obj>>
                    /\ ~hasVote(objectOf(heap, requests[j].obj), requests[i].input)

\* Two requests that missed the cache together: the vote was acknowledged,
\* the other request wrote its own copy afterwards, and the vote is in neither
\* the cached nor the persisted state
C28_Witness ==
    /\ inFlight(requests) = {}
    /\ \E i, j \in 1..Len(requests) :
          /\ lostVote(i)
          /\ requests[j].kind = "bet"
          /\ requests[j].pc = "done"
          /\ requests[j].ret[1].kind = "bet"
          /\ requests[j].obj # requests[i].obj
          /\ heap.cached = <<requests[j].obj>>
          /\ disk = cache

-----------------------------------------------------------------------------
(* Vote tallies and the vote ledger *)

\* Votes as two wallets send them for the turn the clock is in or the one before
TallyVoteInputsOf(c, now) ==
    [clipId : VoteClipIdsOf(c, now), side : Sides, address : {Addr1, Addr2}]

\* <<aVotes, bVotes>> of a turn and <<votesA, votesB>> of an epoch, zero when
\* the store holds no record of them
turnVotesOf(c, clipId) ==
    IF c # <<>> /\ clipId \in DOMAIN c[1].votesByClip
    THEN <<c[1].votesByClip[clipId].aVotes, c[1].votesByClip[clipId].bVotes>>
    ELSE <<0, 0>>
epochVotesOf(c, e) ==
    IF c # <<>> /\ e \in DOMAIN c[1].epochAggregates
    THEN <<c[1].epochAggregates[e].votesA, c[1].epochAggregates[e].votesB>>
    ELSE <<0, 0>>

\* The counters of every turn's vote record agree with its ledger
tallyMatchesLedger(c) ==
    c # <<>> =>
        \A clipId \in DOMAIN c[1].votesByClip :
            LET record == c[1].votesByClip[clipId]
                forA == {address \in DOMAIN record.votes : record.votes[address] = "A"}
            IN  /\ record.aVotes + record.bVotes = Cardinality(DOMAIN record.votes)
                /\ record.aVotes = Cardinality(forA)

\* What a successful vote for side adds and returns
voteCounted(c, now, input, r) ==
    LET turnBefore == turnVotesOf(c, input.clipId)
        turnAfter == turnVotesOf(r.cache, input.clipId)
        epochBefore == epochVotesOf(c, epochIdFromMs(now))
        epochAfter == epochVotesOf(r.cache, epochIdFromMs(now))
        addA == IF input.side = "A" THEN 1 ELSE 0
        addB == IF input.side = "B" THEN 1 ELSE 0
    IN  /\ turnAfter = <<turnBefore[1] + addA, turnBefore[2] + addB>>
        /\ epochAfter = <<epochBefore[1] + addA, epochBefore[2] + addB>>
        /\ r.cache[1].epochAggregates[epochIdFromMs(now)].finalizedAt = Null
        /\ r.ret.aVotes = turnAfter[1]
        /\ r.ret.bVotes = turnAfter[2]
        /\ r.ret.winner = (IF turnAfter[1] > turnAfter[2] THEN "A"
                           ELSE IF turnAfter[2] > turnAfter[1] THEN "B"
                           ELSE "TIE")
        /\ tallyMatchesLedger(r.cache)

\* C33: in every reachable state the two counters of every turn's vote record
\* add up to the number of addresses recorded for the turn and aVotes is the
\* number recorded for side A; a successful vote adds exactly 1 to the counter
\* of its side for that turn and to the same side's vote counter of the open
\* epoch's aggregate, leaves the other side's counters, and returns the new
\* tally with the side holding strictly more votes as winner, else TIE.
C33_TallyMatchesLedger ==
    /\ tallyMatchesLedger(cache)
    /\ tallyMatchesLedger(disk)
    /\ \A input \in TallyVoteInputsOf(cache, clock) :
           \A r \in {castVote(cache, disk, clock, input)} :
               r.ret.kind = "vote" => voteCounted(cache, clock, input, r)

\* Addr1 has voted A for the playing turn; the vote of Addr2 for B is taken
\* and returns 1 : 1 and TIE, and a vote of Addr2 for A returns 2 : 0 and A.
C33_Witness ==
    /\ cache # <<>>
    /\ \E clipId \in DOMAIN cache[1].votesByClip :
          /\ turnVotesOf(cache, clipId) = <<1, 0>>
          /\ LET forB == castVote(cache, disk, clock,
                                  [clipId |-> clipId, side |-> "B", address |-> Addr2])
                 forA == castVote(cache, disk, clock,
                                  [clipId |-> clipId, side |-> "A", address |-> Addr2])
             IN  /\ forB.ret.kind = "vote" /\ forB.ret.winner = "TIE"
                 /\ turnVotesOf(forB.cache, clipId) = <<1, 1>>
                 /\ forA.ret.kind = "vote" /\ forA.ret.winner = "A"
                 /\ turnVotesOf(forA.cache, clipId) = <<2, 0>>
                 /\ epochVotesOf(forA.cache, epochIdFromMs(clock))[1]
                       = epochVotesOf(cache, epochIdFromMs(clock))[1] + 1

-----------------------------------------------------------------------------
(* Stake totals and the stakes of the addresses *)

StakeAmounts == {1, 2}
StakeInputsOf(now) ==
    [epochId : {epochIdFromMs(now)}, side : Sides, amountWei : StakeAmounts,
     address : {Addr1, Addr1Upper, Addr2}]

\* <<amountAWei, amountBWei, claimed>> of an address for an epoch
stakeOf(c, e, address) ==
    IF c # <<>> /\ e \in DOMAIN c[1].userBetsByEpoch
         /\ address \in DOMAIN c[1].userBetsByEpoch[e]
    THEN c[1].userBetsByEpoch[e][address]
    ELSE [amountAWei |-> 0, amountBWei |-> 0, claimed |-> FALSE]

RECURSIVE sumOfStakes(_, _, _)
sumOfStakes(c, e, addresses) ==
    IF addresses = {} THEN <<0, 0>>
    ELSE LET address == CHOOSE a \in addresses : TRUE
             rest == sumOfStakes(c, e, addresses \ {address})
         IN  << rest[1] + stakeOf(c, e, address).amountAWei,
                rest[2] + stakeOf(c, e, address).amountBWei >>

stakedEpochsOf(c) ==
    IF c = <<>> THEN {} ELSE DOMAIN c[1].epochAggregates \cup DOMAIN c[1].userBetsByEpoch
bettorsOf(c, e) ==
    IF c # <<>> /\ e \in DOMAIN c[1].userBetsByEpoch
    THEN DOMAIN c[1].userBetsByEpoch[e] ELSE {}

\* Each epoch's totals are the sums of the stakes of its bettors
totalsAreSums(c) ==
    \A e \in stakedEpochsOf(c) : stakeTotalsOf(c, e) = sumOfStakes(c, e, bettorsOf(c, e))

\* What a booked bet adds, and what it leaves
betBooked(c, now, input, r) ==
    LET e == epochIdFromMs(now)
        address == normalizeAddress(input.address)
        addA == IF input.side = "A" THEN input.amountWei ELSE 0
        addB == IF input.side = "B" THEN input.amountWei ELSE 0
    IN  /\ stakeTotalsOf(r.cache, e)
              = <<stakeTotalsOf(c, e)[1] + addA, stakeTotalsOf(c, e)[2] + addB>>
        /\ stakeOf(r.cache, e, address)
              = [ amountAWei |-> stakeOf(c, e, address).amountAWei + addA,
                  amountBWei |-> stakeOf(c, e, address).amountBWei + addB,
                  claimed |-> FALSE ]
        /\ \A other \in stakedEpochsOf(r.cache) \cup stakedEpochsOf(c) :
              /\ other # e => stakeTotalsOf(r.cache, other) = stakeTotalsOf(c, other)
              /\ \A bettor \in bettorsOf(r.cache, other) \cup bettorsOf(c, other) :
                    (other # e \/ bettor # address)
                        => stakeOf(r.cache, other, bettor) = stakeOf(c, other, bettor)
        /\ r.ret.totalBetAWei = stakeTotalsOf(r.cache, e)[1]
        /\ r.ret.totalBetBWei = stakeTotalsOf(r.cache, e)[2]
        /\ totalsAreSums(r.cache)
        /\ r.disk = r.cache

\* C34: in every reachable state each epoch's total stake on a side is the sum
\* of the stakes of all addresses on that side for the epoch; a booked bet
\* adds its amount to the total and to the bettor's stake on its side, leaves
\* the other side, the other epochs and the other addresses as they were, and
\* leaves the bettor's claimed flag for the epoch false.
C34_StakeTotalsAreSums ==
    /\ totalsAreSums(cache)
    /\ \A input \in StakeInputsOf(clock) :
           \A r \in {registerBet(cache, disk, clock, input)} :
               /\ r.ret.kind = "bet"
               /\ betBooked(cache, clock, input, r)

\* The open epoch holds a stake of Addr1 on A and one of Addr2; a bet of 2 on
\* B by Addr1 (sent in upper case) leaves the total of A, adds 2 to the total
\* of B and to Addr1's stake on B, and leaves Addr2's stake.
C34_Witness ==
    /\ cache # <<>>
    /\ LET e == epochIdFromMs(clock)
           r == registerBet(cache, disk, clock,
                            [epochId |-> e, side |-> "B", amountWei |-> 2,
                             address |-> Addr1Upper])
       IN  /\ stakeOf(cache, e, Addr1).amountAWei = 1
           /\ Addr2 \in bettorsOf(cache, e)
           /\ r.ret.kind = "bet"
           /\ stakeTotalsOf(r.cache, e)[1] = stakeTotalsOf(cache, e)[1]
           /\ stakeTotalsOf(r.cache, e)[2] = stakeTotalsOf(cache, e)[2] + 2
           /\ stakeOf(r.cache, e, Addr1).amountBWei = stakeOf(cache, e, Addr1).amountBWei + 2
           /\ stakeOf(r.cache, e, Addr2) = stakeOf(cache, e, Addr2)

-----------------------------------------------------------------------------
(* Claims over longer runs: one voter, one bettor, the epoch boundary, the   *)
(* claim, and what follows it.  The clock starts 25 s before the end of      *)
(* epoch 0 and moves in steps that cross it.                                 *)

MaxClaimCalls == 7
MaxClaimTicks == 2

ClaimApply(result) ==
    /\ calls < MaxClaimCalls
    /\ calls' = calls + 1
    /\ cache' = result.cache
    /\ disk' = result.disk
    /\ contPresence' = nextContPresence(result.cache, clock)
    /\ UNCHANGED <<clock, ticks, shadow, runtimeAgent, pass, addressed, lobbies, heap, requests>>

ClaimTick ==
    /\ ticks < MaxClaimTicks
    /\ clock' = clock + LISTENER_TTL_MS + 5000
    /\ ticks' = ticks + 1
    /\ contPresence' = nextContPresence(cache, clock')
    /\ UNCHANGED <<calls, cache, disk, shadow, runtimeAgent, pass, addressed, lobbies, heap, requests>>

ClaimJoin == ClaimApply(joinPresence(cache, disk, clock, Session1, mintedSession(1)))

ClaimSnapshot == ClaimApply(getMatchSnapshot(cache, disk, clock, Addr1))

ClaimVote ==
    \E side \in Sides :
        ClaimApply(castVote(cache, disk, clock,
                            [ clipId |-> clipIdOf(slotIndexOf(cache, clock)),
                              side |-> side, address |-> Addr2 ]))

ClaimBet ==
    \E side \in Sides, epochId \in BetEpochIdsOf(clock) :
        ClaimApply(registerBet(cache, disk, clock,
                               [ epochId |-> epochId, side |-> side,
                                 amountWei |-> 1, address |-> Addr1 ]))

ClaimMark ==
    \E epochId \in BetEpochIdsOf(clock) :
        ClaimApply(markClaimed(cache, disk, clock, [epochId |-> epochId, address |-> Addr1]))

ClaimStart == ClaimApply(startMatch(cache, disk, clock))

ClaimReset == ClaimApply(resetMatch(cache, disk, clock))

NextClaim ==
    \/ ClaimTick
    \/ ClaimJoin
    \/ ClaimSnapshot
    \/ ClaimVote
    \/ ClaimBet
    \/ ClaimMark
    \/ ClaimStart
    \/ ClaimReset
    \/ Restart

SpecClaim == Init /\ [][NextClaim]_vars

\* The lobby state the next call will load: the cached one, or the record read back
nextLoaded(c, d, now) ==
    IF c # <<>> THEN c
    ELSE IF d # <<>> /\ ~Has(d[1], "unparseable") THEN <<hydrateLobbyState(d[1], now)>>
    ELSE <<>>

\* The <<epoch, address>> pairs whose bet is marked claimed
claimedPairs(c) ==
    IF c = <<>> THEN {}
    ELSE {pair \in (DOMAIN c[1].userBetsByEpoch) \X BetAddresses :
            /\ pair[2] \in DOMAIN c[1].userBetsByEpoch[pair[1]]
            /\ c[1].userBetsByEpoch[pair[1]][pair[2]].claimed}

\* The epochs a snapshot for the address lists as claimable
listedClaimable(c, d, now, address) ==
    {getMatchSnapshot(c, d, now, address).ret.claimableEpochIds[i] :
        i \in DOMAIN getMatchSnapshot(c, d, now, address).ret.claimableEpochIds}

wasReset(c, d, now, c2) ==
    c2 \in {startMatch(c, d, now).cache, resetMatch(c, d, now).cache}

\* C37: once the claimed flag of an (epoch, address) is set, every step other
\* than a reset (join, snapshot, vote, bet, claim, clock tick, process
\* restart) leaves it set, and no snapshot for the address lists the epoch as
\* claimable again.
C37_ClaimedFlagStays ==
    [][ \A pair \in claimedPairs(nextLoaded(cache, disk, clock)) :
            \/ wasReset(cache, disk, clock, cache')
            \/ /\ pair \in claimedPairs(nextLoaded(cache', disk', clock'))
               /\ pair[1] \notin listedClaimable(cache', disk', clock', pair[2]) ]_vars

\* Addr1 staked on the winner of epoch 0 and the stake is marked claimed; a
\* further bet of Addr1 on the open epoch is booked and leaves the flag, a
\* second markClaimed changes nothing, and the snapshot for Addr1 lists no
\* claimable epoch; without the flag it would list epoch 0.
C37_Witness ==
    /\ cache # <<>>
    /\ <<0, Addr1>> \in claimedPairs(cache)
    /\ epochIdFromMs(clock) = 1
    /\ LET bet == registerBet(cache, disk, clock,
                              [epochId |-> 1, side |-> "B", amountWei |-> 1, address |-> Addr1])
           again == markClaimed(bet.cache, bet.disk, clock, [epochId |-> 0, address |-> Addr1])
           unflagged == [cache[1] EXCEPT !.userBetsByEpoch[0][Addr1].claimed = FALSE]
       IN  /\ bet.ret.kind = "bet"
           /\ <<0, Addr1>> \in claimedPairs(bet.cache)
           /\ <<0, Addr1>> \in claimedPairs(again.cache)
           /\ listedClaimable(again.cache, again.disk, clock, Addr1) = {}
           /\ listedClaimable(<<unflagged>>, <<unflagged>>, clock, Addr1) = {0}

-----------------------------------------------------------------------------
(* The epochs after a catch-up *)

MaxIdleHours == 3

\* The moments a call is tried at: now, the close of the open epoch when it
\* is near, and for a loop that is not running one to MaxIdleHours hours later
epochMoments(c, now) ==
    {now} \cup closeTimes(now)
          \cup (IF c # <<>> /\ c[1].loop.running THEN {}
                ELSE {now + k * EPOCH_DURATION_MS : k \in 1..MaxIdleHours})

lastEpochOf(c) == IF c = <<>> THEN 0 ELSE c[1].lastEpochId

\* The last-seen epoch is the one of now; it has an open aggregate; every
\* tracked epoch before it is finalized with a winner
epochsSettled(state, now) ==
    LET current == now \div 3600000
    IN  /\ state.lastEpochId = current
        /\ current \in DOMAIN state.epochAggregates
        /\ state.epochAggregates[current].finalizedAt = Null
        /\ \A e \in DOMAIN state.epochAggregates :
              e < current =>
                  /\ state.epochAggregates[e].finalizedAt # Null
                  /\ state.epochAggregates[e].winner \in {"A", "B", "TIE"}

\* C38: after every catch-up pass at time now the last-seen epoch id is
\* floor(now / 3 600 000 ms), that epoch has an aggregate that is not
\* finalized, and every tracked epoch with a smaller id is finalized with
\* winner A, B or TIE; no operation decreases the last-seen epoch id.
C38_EpochsSettledAfterCatchUp ==
    \A now \in epochMoments(cache, clock) :
        /\ EveryCatchUp(cache, disk, now, LAMBDA r : epochsSettled(r.cache[1], now))
        /\ EveryNonReset(cache, disk, now, LAMBDA r : lastEpochOf(r.cache) >= lastEpochOf(cache))
        /\ lastEpochOf(startMatch(cache, disk, now).cache) >= lastEpochOf(cache)
        /\ lastEpochOf(resetMatch(cache, disk, now).cache) >= lastEpochOf(cache)

\* The lobby was last caught up in epoch 0, which holds a stake, and its loop
\* is not running; a snapshot three hours later finds epochs 0, 1 and 2
\* finalized, each with its own aggregate and history entry (the stake stays
\* with epoch 0), and epoch 3 open.
C38_Witness ==
    /\ cache # <<>>
    /\ ~cache[1].loop.running
    /\ cache[1].lastEpochId = 0
    /\ cache[1].epochAggregates[0].totalBetAWei > 0
    /\ LET now == clock + 3 * EPOCH_DURATION_MS
           r == getMatchSnapshot(cache, disk, now, NoString)
       IN  /\ r.cache[1].lastEpochId = 3
           /\ DOMAIN r.cache[1].epochAggregates = 0..3
           /\ \A e \in 0..2 : r.cache[1].epochAggregates[e].finalizedAt = now
           /\ \A e \in 0..2 : r.cache[1].epochAggregates[e].winner = "TIE"
           /\ r.cache[1].epochAggregates[0].totalBetAWei = cache[1].epochAggregates[0].totalBetAWei
           /\ r.cache[1].epochAggregates[1].totalBetAWei = 0
           /\ r.cache[1].epochAggregates[3].finalizedAt = Null
           /\ Len(r.cache[1].epochHistory) = 3

-----------------------------------------------------------------------------
(* Now playing *)

\* Moments inside the turn, at its end and in the gap after it
NowPlayingDelays == {0, 2500, 5000, 7500, 10000}

\* now-playing as the claim derives it from the loop state and the time
derivedNowPlaying(state, now, nowPlaying) ==
    LET elapsed == getActiveElapsedMs(state, now)
    IN  IF ~state.loop.running \/ elapsed % 12500 >= 10000
        THEN nowPlaying = <<>>
        ELSE /\ nowPlaying # <<>>
             /\ nowPlaying[1].clipIndex = elapsed \div 12500
             /\ nowPlaying[1].agentId = (IF (elapsed \div 12500) % 2 = 0 THEN "A" ELSE "B")
             /\ nowPlaying[1].startedAt = now - (elapsed % 12500)
             /\ nowPlaying[1].endsAt = now - (elapsed % 12500) + 10000

derivedPhase(nowPlaying) ==
    IF nowPlaying = <<>> THEN "IDLE"
    ELSE IF nowPlaying[1].agentId = "A" THEN "A_PLAYING" ELSE "B_PLAYING"

\* What building the view leaves as it was: the loop, the agents, the turn
\* history and every record of votes, stakes and epochs that existed
viewLeaves(before, after) ==
    /\ after.loop = before.loop
    /\ after.agents = before.agents
    /\ after.clipHistory = before.clipHistory
    /\ after.userBetsByEpoch = before.userBetsByEpoch
    /\ \A clipId \in DOMAIN before.votesByClip :
          clipId \in DOMAIN after.votesByClip /\ after.votesByClip[clipId] = before.votesByClip[clipId]
    /\ \A e \in DOMAIN before.epochAggregates :
          e \in DOMAIN after.epochAggregates /\ after.epochAggregates[e] = before.epochAggregates[e]

\* C36: for every lobby state and time now, now-playing is null when the loop
\* is paused or elapsed-active(now) mod 12.5 s is at least 10 s; otherwise it
\* is the turn of index floor(elapsed-active(now) / 12.5 s), acted by A when
\* the index is even and by B when odd; the snapshot's phase is A_PLAYING,
\* B_PLAYING or IDLE accordingly; and deriving it leaves loop, agents and
\* ledgers as they were.
C36_NowPlayingDerived ==
    cache # <<>> =>
        \A delay \in NowPlayingDelays :
            LET now == clock + delay
            IN  /\ derivedNowPlaying(cache[1], now, buildNowPlaying(cache[1], now))
                /\ \A r \in {getMatchSnapshot(cache, disk, now, Addr1)} :
                      /\ derivedNowPlaying(r.cache[1], now, r.ret.nowPlaying)
                      /\ r.ret.phase = derivedPhase(r.ret.nowPlaying)
                      /\ \A built \in {buildSnapshot(r.cache[1], now, Addr1)} :
                            /\ viewLeaves(r.cache[1], built.st)
                            /\ built.snapshot = r.ret

\* The loop has run for 20 s: turn 1 is 7.5 s in and B plays it; 2.5 s later
\* the turn is over and nothing plays; 5 s later turn 2 begins and A plays it.
C36_Witness ==
    /\ cache # <<>>
    /\ cache[1].loop.running
    /\ getActiveElapsedMs(cache[1], clock) = 20000
    /\ LET at(delay) == getMatchSnapshot(cache, disk, clock + delay, NoString).ret
       IN  /\ at(0).phase = "B_PLAYING" /\ at(0).nowPlaying[1].clipIndex = 1
           /\ at(2500).phase = "IDLE" /\ at(2500).nowPlaying = <<>>
           /\ at(5000).phase = "A_PLAYING" /\ at(5000).nowPlaying[1].clipIndex = 2

-----------------------------------------------------------------------------
(* Presence: join, leave, prune *)

\* Session ids as a client may send them: well-formed ones of 8 and of 128
\* characters, none, too short, too long, one with a character outside the
\* set, and a well-formed one with blanks around it
SessionPadded == <<" ">> \o Session1 \o <<" ", " ">>
SessionSpaced == <<"s", "e", "s", "s", " ", "A", "_", "1">>
PresenceInputs ==
    { Session1, Repeat("z", 128), NoString, SessionBad, Repeat("z", 7), Repeat("z", 129),
      SessionSpaced, SessionPadded }

PruneDelays == {0, 5000, 25000, 30000, 30001}

\* 8 to 128 characters from [a-zA-Z0-9_-]
wellFormed(id) ==
    /\ Len(id) >= 8
    /\ Len(id) <= 128
    /\ \A i \in 1..Len(id) : id[i] \in {"_", "-"} \cup {Lower[k] : k \in 1..26}
                                 \cup {Upper[k] : k \in 1..26} \cup {Digits[k] : k \in 1..10}

presenceOf(c) == IF c = <<>> THEN EmptyMap ELSE c[1].listeners

\* The sessions of a presence map that are not older than the TTL at now
freshAt(listeners, now) ==
    {sessionId \in DOMAIN listeners : now - listeners[sessionId] <= 30000}

\* The presence map after the call holds the fresh sessions of `listeners`
\* with their last-seen times
prunedTo(r, listeners, now) ==
    /\ DOMAIN presenceOf(r.cache) = freshAt(listeners, now)
    /\ \A sessionId \in freshAt(listeners, now) :
          presenceOf(r.cache)[sessionId] = listeners[sessionId]

\* join records or refreshes `id` (when there is one) or else the minted id
joinRecords(c, d, now, raw, id, minted) ==
    \A r \in {joinPresence(c, d, now, raw, minted)} :
        LET recorded == IF id # NoString THEN id ELSE minted
        IN  /\ r.ret.sessionId = recorded
            /\ presenceOf(r.cache)[recorded] = now
            /\ prunedTo(r, Put(presenceOf(c), recorded, now), now)

\* C39 as stated: join with an id of 8 to 128 characters from [a-zA-Z0-9_-]
\* records or refreshes it with last-seen = now and returns it; join with any
\* other id, or none, mints and records a fresh one; leave removes the named
\* session when the id is such an id and removes nothing otherwise; pruning at
\* now removes exactly the sessions with now - last-seen > 30 s.
C39_JoinRecordsGivenIdOrMints ==
    \A raw \in PresenceInputs, delay \in PruneDelays :
        LET now == clock + delay
        IN  /\ joinRecords(cache, disk, now, raw,
                           IF wellFormed(raw) THEN raw ELSE NoString, mintedSession(1))
            /\ \A r \in {leavePresence(cache, disk, now, raw)} :
                  IF wellFormed(raw)
                  THEN prunedTo(r, Remove(presenceOf(cache), {raw}), now)
                  ELSE presenceOf(r.cache) = presenceOf(cache)
            /\ \A r \in {getMatchSnapshot(cache, disk, now, NoString)} :
                  prunedTo(r, presenceOf(cache), now)

\* C39 amended: the id is the one sent with the blanks around it removed, and
\* every call prunes: join with an id that, trimmed, has 8 to 128 characters
\* from [a-zA-Z0-9_-] records or refreshes the trimmed id with last-seen = now
\* and returns it; any other id, or none, mints and records a fresh one; leave
\* removes the session of the trimmed id when that is well-formed; and each
\* of join, leave and getSnapshot at now removes besides exactly the sessions
\* with now - last-seen > 30 s, so that a session refreshed within 30 s stays.
C39_JoinRecordsTrimmedIdOrMints ==
    \A raw \in PresenceInputs, delay \in PruneDelays :
        LET now == clock + delay
            id == IF wellFormed(trim(raw)) THEN trim(raw) ELSE NoString
        IN  /\ joinRecords(cache, disk, now, raw, id, mintedSession(1))
            /\ \A r \in {leavePresence(cache, disk, now, raw)} :
                  prunedTo(r, Remove(presenceOf(cache), {id}), now)
            /\ \A r \in {getMatchSnapshot(cache, disk, now, NoString)} :
                  prunedTo(r, presenceOf(cache), now)

\* sess-A_1 was last seen 35 s ago: a join sending " sess-A_1  " refreshes
\* sess-A_1 and mints nothing; a leave sending "short" removes sess-A_1, which
\* has expired; 30 s after the refresh a snapshot keeps the session and a
\* leave sending " sess-A_1  " removes it.
C39_Witness ==
    /\ cache # <<>>
    /\ DOMAIN cache[1].listeners = {Session1}
    /\ clock - cache[1].listeners[Session1] = 35000
    /\ LET joined == joinPresence(cache, disk, clock, SessionPadded, mintedSession(1))
           left == leavePresence(cache, disk, clock, SessionBad)
           later == getMatchSnapshot(joined.cache, joined.disk, clock + 30000, NoString)
           gone == leavePresence(joined.cache, joined.disk, clock + 30000, SessionPadded)
       IN  /\ joined.ret.sessionId = Session1
           /\ presenceOf(joined.cache) = Put(EmptyMap, Session1, clock)
           /\ presenceOf(left.cache) = EmptyMap
           /\ presenceOf(later.cache) = presenceOf(joined.cache)
           /\ presenceOf(gone.cache) = EmptyMap

-----------------------------------------------------------------------------
(* The snapshot view and the cached state *)

\* C40 as stated: a getSnapshot whose catch-up changes nothing writes nothing
\* and leaves the cached lobby state, vote ledger and epoch aggregates
\* included, exactly as it was; after any getSnapshot the cached state is
\* equal to the durable record.
C40_SnapshotLeavesCacheDurable ==
    \A viewer \in Viewers :
        \A r \in {getMatchSnapshot(cache, disk, clock, viewer)} :
            /\ (cache # <<>> /\ ~r.wrote) => r.cache = cache
            /\ r.cache = r.disk

-----------------------------------------------------------------------------
(* Win and loss counters *)

\* Turns of the history whose stored tally names this winner
turnsWonBy(state, winner) ==
    Cardinality({i \in DOMAIN state.clipHistory :
                    state.clipHistory[i].voteTally.winner = winner})

\* Finalized epochs whose aggregate names this winner
finalizedWonBy(state, winner) ==
    Cardinality({e \in DOMAIN state.epochAggregates :
                    /\ state.epochAggregates[e].finalizedAt # Null
                    /\ state.epochAggregates[e].winner = winner})

\* The counters of both agents against the materialized turns and the
\* finalized epochs of the state
countersMatch(c) ==
    c # <<>> =>
        LET state == c[1]
            A == state.agents.A
            B == state.agents.B
        IN  /\ state.loop.processedClipCount = Len(state.clipHistory)
            /\ A.wins = B.losses /\ A.losses = B.wins
            /\ A.wins = turnsWonBy(state, "A")
            /\ B.wins = turnsWonBy(state, "B")
            /\ A.wins + A.losses = Len(state.clipHistory) - turnsWonBy(state, "TIE")
            /\ B.wins + B.losses = Len(state.clipHistory) - turnsWonBy(state, "TIE")
            /\ A.winCount = B.lossCount /\ A.lossCount = B.winCount
            /\ A.winCount = finalizedWonBy(state, "A")
            /\ B.winCount = finalizedWonBy(state, "B")

\* C35: the mutation engine runs once per agent for each materialized turn and
\* once per agent for each finalized epoch: in every state, and after every
\* operation, A's wins are B's losses and the reverse, each agent's wins plus
\* losses is the number of materialized turns that were not tied, and the
\* same for the epoch counters and the finalized epochs that were not tied.
C35_CountersMatchOutcomes ==
    /\ countersMatch(cache)
    /\ EveryNonReset(cache, disk, clock, LAMBDA r : countersMatch(r.cache))
    /\ countersMatch(startMatch(cache, disk, clock).cache)
    /\ countersMatch(resetMatch(cache, disk, clock).cache)

\* A vote for A on turn 0, then 35 s: the catch-up materializes turn 0 won
\* by A and two tied turns, and finalizes the epoch of the vote, won by A.
C35_Witness ==
    /\ cache # <<>>
    /\ cache[1].agents.A.wins = 0
    /\ \E r \in {getMatchSnapshot(cache, disk, clock, NoString)} :
          /\ r.cache[1].agents.A.wins = 1
          /\ r.cache[1].agents.B.losses = 1
          /\ turnsWonBy(r.cache[1], "TIE") >= 2
          /\ r.cache[1].agents.A.winCount = 1
          /\ r.cache[1].agents.B.lossCount = 1

-----------------------------------------------------------------------------
(* A durable write that fails.  fs.writeFile throws (matchStore.ts:741):    *)
(* writeLobbyState has stamped updatedAt on the state object (740), the     *)
(* file keeps its content, the cache assignment of line 742 is not reached  *)
(* and the error leaves the operation, which the route reports to the       *)
(* caller.  The state object is the one loadLobbyState found in the cache   *)
(* or put there (748-758), so what the operation did to it before the write *)
(* stays in the cache.                                                      *)

MaxFailCalls == 3

PersistenceError == Error("Unknown")

\* The write of fresh defaults fails (760-763): nothing was cached
loadWriteFails(c, d, now) ==
    IF c = <<>> /\ (d = <<>> \/ Has(d[1], "unparseable"))
    THEN {[cache |-> c, disk |-> d, wrote |-> FALSE, ret |-> PersistenceError]}
    ELSE {}

\* The write after a catch-up that changed something fails (1521-1523)
syncWriteFails(loaded, synced, now) ==
    IF synced.changed
    THEN {[ cache |-> <<writeLobbyState(synced.st, now)>>,
            disk |-> loaded.disk,
            wrote |-> loaded.wrote,
            ret |-> PersistenceError ]}
    ELSE {}

\* Variant: the state object is put back as it was after the catch-up
lastWriteFails_rolledBack(synced, done) ==
    [cache |-> synced.cache, disk |-> synced.disk, wrote |-> synced.wrote,
     ret |-> PersistenceError]
\* The last write of castVote (1635) or registerBet (1704) fails: done is the
\* call as it ends when that write succeeds, synced the same call up to the
\* end of its catch-up, whose own write, if any, succeeded
lastWriteFails(synced, done) ==
    [cache |-> done.cache, disk |-> synced.disk, wrote |-> synced.wrote,
     ret |-> PersistenceError]

getMatchSnapshotFails(c, d, now, viewerAddress) ==
    Bind(loadLobbyState(c, d, now), LAMBDA loaded :
    Bind(syncAndSnapshot(loaded.st, now, viewerAddress), LAMBDA synced :
        syncWriteFails(loaded, synced, now)))

joinPresenceFails(c, d, now, sessionIdRaw, minted) ==
    Bind(loadLobbyState(c, d, now), LAMBDA loaded :
    Bind(parseSessionId(sessionIdRaw), LAMBDA parsed :
    Bind(IF parsed # NoString THEN parsed ELSE minted, LAMBDA sessionId :
    Bind(syncAndSnapshot([loaded.st EXCEPT !.listeners = Put(@, sessionId, now)], now, NoString),
         LAMBDA synced :
        syncWriteFails(loaded, synced, now)))))

\* castVote with one of its writes failing: the one of the catch-up, or the
\* one that follows the recording of the vote
castVoteFails(c, d, now, input) ==
    Bind(castVote(c, d, now, input), LAMBDA done :
        IF done.ret.kind = "error" /\ done.ret.error \in {"InvalidSide", "InvalidAddress"}
        THEN {}
        ELSE getMatchSnapshotFails(c, d, now, NoString)
                \cup IF done.ret.kind = "vote"
                     THEN {lastWriteFails(getMatchSnapshot(c, d, now, NoString), done)}
                     ELSE {})

\* registerBet with one of its writes failing
registerBetFails(c, d, now, input) ==
    Bind(registerBet(c, d, now, input), LAMBDA done :
        IF done.ret.kind = "error"
              /\ done.ret.error \in {"InvalidAddress", "InvalidSide", "InvalidAmount"}
        THEN {}
        ELSE getMatchSnapshotFails(c, d, now, NoString)
                \cup IF done.ret.kind = "bet"
                     THEN {lastWriteFails(getMatchSnapshot(c, d, now, NoString), done)}
                     ELSE {})

FailVoteInputsOf(c, now) ==
    [clipId : VoteClipIdsOf(c, now), side : Sides, address : {Addr1}]
FailBetInputsOf(now) ==
    [epochId : BetEpochIdsOf(now), side : {"A"}, amountWei : {1}, address : {Addr1}]

FailApply(result) ==
    /\ calls < MaxFailCalls
    /\ served
    /\ calls' = calls + 1
    /\ lobbies' = storeAfter(lobbies, addressed, result)
    /\ UNCHANGED <<clock, ticks, cache, disk, contPresence, shadow, runtimeAgent, pass, addressed, heap, requests>>

FailAddress ==
    /\ calls < MaxFailCalls
    /\ Address

FailSnapshot ==
    FailApply(getMatchSnapshot(cacheOf(lobbies, addressed), fileOf(lobbies, addressed),
                               clock, NoString))

FailJoin ==
    FailApply(joinPresence(cacheOf(lobbies, addressed), fileOf(lobbies, addressed),
                           clock, Session1, mintedSession(1)))

FailVote ==
    \E input \in FailVoteInputsOf(cacheOf(lobbies, addressed), clock) :
        FailApply(castVote(cacheOf(lobbies, addressed), fileOf(lobbies, addressed),
                           clock, input))

FailBet ==
    \E input \in FailBetInputsOf(clock) :
        FailApply(registerBet(cacheOf(lobbies, addressed), fileOf(lobbies, addressed),
                              clock, input))

LoadWriteFails ==
    \E f \in loadWriteFails(cacheOf(lobbies, addressed), fileOf(lobbies, addressed), clock) :
        FailApply(f)

SnapshotWriteFails ==
    \E f \in getMatchSnapshotFails(cacheOf(lobbies, addressed), fileOf(lobbies, addressed),
                                   clock, NoString) :
        FailApply(f)

JoinWriteFails ==
    \E f \in joinPresenceFails(cacheOf(lobbies, addressed), fileOf(lobbies, addressed),
                               clock, Session1, mintedSession(1)) :
        FailApply(f)

VoteWriteFails ==
    \E input \in FailVoteInputsOf(cacheOf(lobbies, addressed), clock) :
        \E f \in castVoteFails(cacheOf(lobbies, addressed), fileOf(lobbies, addressed),
                               clock, input) :
            FailApply(f)

BetWriteFails ==
    \E input \in FailBetInputsOf(clock) :
        \E f \in registerBetFails(cacheOf(lobbies, addressed), fileOf(lobbies, addressed),
                                  clock, input) :
            FailApply(f)

NextFail ==
    \/ LobbyTick
    \/ FailAddress
    \/ FailSnapshot
    \/ FailJoin
    \/ FailVote
    \/ FailBet
    \/ LoadWriteFails
    \/ SnapshotWriteFails
    \/ JoinWriteFails
    \/ VoteWriteFails
    \/ BetWriteFails

SpecFail == InitLobbies /\ [][NextFail]_vars

\* The outcomes of the operations on a lobby in which a write fails after the
\* operation changed the state in memory
mutationFailures(c, d, now) ==
    UNION ( {getMatchSnapshotFails(c, d, now, NoString),
             joinPresenceFails(c, d, now, Session1, mintedSession(1))}
            \cup {castVoteFails(c, d, now, input) : input \in FailVoteInputsOf(c, now)}
            \cup {registerBetFails(c, d, now, input) : input \in FailBetInputsOf(now)} )

\* The entries of every lobby but the addressed one are what they were
othersKept(store, after) ==
    \A lobbyId \in LobbyIds \ {addressed} :
        /\ cacheOf(after, lobbyId) = cacheOf(store, lobbyId)
        /\ fileOf(after, lobbyId) = fileOf(store, lobbyId)

writtenAsCached(r) == r.wrote => r.disk = r.cache

\* C31: a write that fails after an in-memory mutation leaves the cached
\* state of the lobby different from its durable record and leaves the cache
\* entry and the record of every other lobby as they were; while the two
\* differ, every operation on the lobby that writes leaves the record equal
\* to the cached state.
C31_FailedWriteDiverges ==
    LET c == cacheOf(lobbies, addressed)
        d == fileOf(lobbies, addressed)
    IN  /\ \A f \in mutationFailures(c, d, clock) :
              /\ f.cache # f.disk
              /\ othersKept(lobbies, storeAfter(lobbies, addressed, f))
        /\ (c # <<>> /\ c # d) =>
              /\ EveryNonReset(c, d, clock, writtenAsCached)
              /\ writtenAsCached(startMatch(c, d, clock))
              /\ writtenAsCached(resetMatch(c, d, clock))

\* The write that follows a vote failed on drift-hard while soft-night has a
\* state of its own: the cached state holds the vote and the record does not;
\* the next snapshot that writes makes them equal.
C31_Witness ==
    LET c == cacheOf(lobbies, "drift-hard")
        d == fileOf(lobbies, "drift-hard")
    IN  /\ addressed = "drift-hard"
        /\ cacheOf(lobbies, "soft-night") # <<>>
        /\ c # <<>> /\ d # <<>>
        /\ \E clipId \in DOMAIN c[1].votesByClip :
              /\ c[1].votesByClip[clipId].aVotes = 1
              /\ clipId \in DOMAIN d[1].votesByClip => d[1].votesByClip[clipId].aVotes = 0
        /\ \E r \in {getMatchSnapshot(c, d, clock, NoString)} :
              r.wrote /\ r.disk = r.cache /\ r.disk # d

-----------------------------------------------------------------------------
(* Votes and bets that end in an error *)

\* The tallies of the turns, the vote counts and stake totals of the epochs
\* and the stakes of the addresses are what they were in c (a record that is
\* missing counts as one of zeros)
ledgerKept(c, r) ==
    /\ stakesUnchanged(c, r)
    /\ \A clipId \in (IF c = <<>> THEN {} ELSE DOMAIN c[1].votesByClip)
                        \cup (IF r.cache = <<>> THEN {} ELSE DOMAIN r.cache[1].votesByClip) :
          turnVotesOf(r.cache, clipId) = turnVotesOf(c, clipId)
    /\ \A e \in (IF c = <<>> THEN {} ELSE DOMAIN c[1].epochAggregates)
                   \cup (IF r.cache = <<>> THEN {} ELSE DOMAIN r.cache[1].epochAggregates) :
          /\ epochVotesOf(r.cache, e) = epochVotesOf(c, e)
          /\ stakeTotalsOf(r.cache, e) = stakeTotalsOf(c, e)

\* The ways a vote or a bet can end: as it does when every write succeeds,
\* or with one of its writes failing
voteOutcomes(c, d, now, input) ==
    {castVote(c, d, now, input)}
        \cup loadWriteFails(c, d, now) \cup castVoteFails(c, d, now, input)
betOutcomes(c, d, now, input) ==
    {registerBet(c, d, now, input)}
        \cup loadWriteFails(c, d, now) \cup registerBetFails(c, d, now, input)

\* C32 as stated: whenever a vote or a bet ends in an error, be it a
\* validation error, a ledger-rule error or a failed write, the tallies of
\* the turns, the vote counts and stake totals of the epochs and the stakes
\* of the addresses are what they were before the call.
C32_ErrorLeavesLedger ==
    LET c == cacheOf(lobbies, addressed)
        d == fileOf(lobbies, addressed)
    IN  /\ \A input \in VoteInputsOf(c, clock) :
              \A r \in voteOutcomes(c, d, clock, input) :
                  r.ret.kind = "error" => ledgerKept(c, r)
        /\ \A input \in BetInputsOf(clock) :
              \A r \in betOutcomes(c, d, clock, input) :
                  r.ret.kind = "error" => ledgerKept(c, r)

====
